---- MODULE Spec2Model ----
(***************************************************************************)
(* Session/auth manager, API client request hook and dashboard fan-out of  *)
(* the Hadyaa admin panel (lib/auth, components/auth-provider, lib/api).   *)
(*                                                                         *)
(* The model runs in a browser context (window and atob are defined).      *)
(***************************************************************************)
EXTENDS Integers, Sequences, FiniteSets, TLC

(***************************************************************************)
(* Bounds of the model.                                                    *)
(***************************************************************************)
\* Number of clock ticks the model lets pass.
MaxTicks == 4
\* Longest per-category project listing a response carries.
MaxListLen == 2

(***************************************************************************)
(* JavaScript values.  A value carries its type tag; an object is a        *)
(* function from its own property names to values.                         *)
(***************************************************************************)
Undefined == [t |-> "undefined"]
Null == [t |-> "null"]
Str(s) == [t |-> "string", v |-> s]
Num(n) == [t |-> "number", v |-> n]
Obj(f) == [t |-> "object", f |-> f]

\* x === null || x === undefined
IsNullish(x) == x.t \in {"undefined", "null"}

\* Boolean(x)
Truthy(x) ==
  CASE x.t = "string" -> x.v # ""
    [] x.t = "number" -> x.v # 0
    [] x.t = "object" -> TRUE
    [] OTHER -> FALSE

\* x[k] for a non-nullish x: a missing property, or any property of a
\* primitive, reads as undefined.
Get(x, k) == IF x.t = "object" /\ k \in DOMAIN x.f THEN x.f[k] ELSE Undefined

\* x?.[k]
OptGet(x, k) == IF IsNullish(x) THEN Undefined ELSE Get(x, k)

\* a ?? b
Coalesce(a, b) == IF IsNullish(a) THEN b ELSE a

\* The object with the properties of f whose value is not undefined.
Defined(f) == [k \in {kk \in DOMAIN f : f[kk] # Undefined} |-> f[k]]

(***************************************************************************)
(* Strings.  String.prototype.trim over the strings of the model: every    *)
(* string is some padding, a core without outer whitespace, some padding.  *)
(***************************************************************************)
Pads == {"", " ", "  "}
Cores == {"", "A", "B", "A B", "D", "Admin", "Npo", "Donor", "Editor",
          "Server exploded", "{errors:{email:[Email is required]}}"}
trim(s) == CHOOSE c \in Cores : \E l \in Pads, r \in Pads : s = l \o (c \o r)

(***************************************************************************)
(* lib/auth: claim keys                                                    *)
(***************************************************************************)
AUTH_STORAGE_KEY == "hadyaa.admin.auth"
ROLE_CLAIM == "http://schemas.microsoft.com/ws/2008/06/identity/claims/role"
NAME_ID_CLAIM == "http://schemas.xmlsoap.org/ws/2005/05/identity/claims/nameidentifier"
EMAIL_CLAIM == "http://schemas.xmlsoap.org/ws/2005/05/identity/claims/emailaddress"

(***************************************************************************)
(* Tokens.  A token is a string; Jwt gives, for each token of the model,   *)
(* the number of parts token.split(".") yields and what                    *)
(* JSON.parse(atob(normalizeBase64Url(parts[1]))) does: throw (no value)   *)
(* or return the value.  atob throws on "%%"; "bm90" decodes to the text   *)
(* "not", on which JSON.parse throws.                                      *)
(***************************************************************************)
Claims(sub, nameId, exp, role, roleClaim) ==
  Obj(Defined(("sub" :> sub) @@ (NAME_ID_CLAIM :> nameId) @@ ("exp" :> exp)
              @@ ("role" :> role) @@ (ROLE_CLAIM :> roleClaim)
              @@ ("email" :> Str("e@x"))))

Throws == <<>>
Returns(v) == <<v>>

Jwt ==
     (""        :> [parts |-> 1, middle |-> Throws])
  @@ ("opaque"  :> [parts |-> 1, middle |-> Throws])
  @@ ("h.%%.s"  :> [parts |-> 3, middle |-> Throws])
  @@ ("h.bm90.s" :> [parts |-> 3, middle |-> Throws])
  @@ ("h.null.s" :> [parts |-> 3, middle |-> Returns(Null)])
  @@ ("h.{sub:u1}.s" :>
        [parts |-> 3, middle |->
           Returns(Claims(Str("u1"), Undefined, Undefined, Str("Admin"), Undefined))])
  @@ ("h.{sub:u1,exp:2}.s" :>
        [parts |-> 3, middle |->
           Returns(Claims(Str("u1"), Undefined, Num(2), Str("Npo"), Undefined))])
  @@ ("h.{sub:u1,exp:0}.s" :>
        [parts |-> 3, middle |->
           Returns(Claims(Str("u1"), Undefined, Num(0), Undefined, Undefined))])
  @@ ("h.{nameid:u2,exp:9}.s" :>
        [parts |-> 3, middle |->
           Returns(Claims(Undefined, Str("u2"), Num(9), Undefined, Str("Npo")))])
  @@ ("h.{sub:'',nameid:u2}.s" :>
        [parts |-> 3, middle |->
           Returns(Claims(Str(""), Str("u2"), Undefined, Str(" "), Undefined))])
  @@ ("h.{exp:9}.s" :>
        [parts |-> 3, middle |->
           Returns(Claims(Undefined, Undefined, Num(9), Str("Editor"), Undefined))])
  @@ ("h.{sub:u3,role:Editor}.s" :>
        [parts |-> 3, middle |->
           Returns(Claims(Str("u3"), Undefined, Undefined, Str("Editor"), Undefined))])
  @@ ("h.{sub:u4,role:' ',roles:Npo}.s" :>
        [parts |-> 3, middle |->
           Returns(Claims(Str("u4"), Undefined, Undefined, Str(" "), Str("Npo")))])

Tokens == DOMAIN Jwt

(***************************************************************************)
(* lib/auth: token decoding and session derivation                         *)
(***************************************************************************)
\* A defective decodeJwtPayload: a middle part that fails to decode gives an
\* empty payload.
decodeJwtPayloadLenient(token) ==
  IF Jwt[token].parts < 2 THEN Null
  ELSE IF Jwt[token].middle = Throws THEN Obj(<<>>)
  ELSE Jwt[token].middle[1]

\* decodeJwtPayload(token): null, or the parsed middle part.
decodeJwtPayload(token) ==
  IF Jwt[token].parts < 2 THEN Null
  ELSE IF Jwt[token].middle = Throws THEN Null
  ELSE Jwt[token].middle[1]

getUserIdFromPayload(payload) ==
  LET id == Coalesce(Get(payload, "sub"), Get(payload, NAME_ID_CLAIM))
  IN  IF id.t = "string" THEN id.v ELSE ""

\* A defective getRoleFromPayload: a role that is not one of the three known
\* roles gives "Donor".
getRoleFromPayloadKnown(payload) ==
  LET role == Coalesce(Get(payload, "role"), Get(payload, ROLE_CLAIM))
  IN  IF role.t = "string" /\ role.v \in {"Admin", "Npo", "Donor"} THEN role.v
      ELSE "Donor"

getRoleFromPayload(payload) ==
  LET role == Coalesce(Get(payload, "role"), Get(payload, ROLE_CLAIM))
  IN  IF role.t = "string" /\ trim(role.v) # "" THEN role.v ELSE "Donor"

getEmailFromPayload(payload) ==
  LET email == Coalesce(Get(payload, "email"), Get(payload, EMAIL_CLAIM))
  IN  IF email.t = "string" THEN email.v ELSE ""

\* A defective isTokenExpired: a token without an expiry claim counts as
\* expired.
isTokenExpiredWithoutExpiry(token, nowMs) ==
  LET payload == decodeJwtPayload(token)
      exp == OptGet(payload, "exp")
  IN  IF ~Truthy(exp) THEN TRUE
      ELSE exp.t = "number" /\ exp.v * 1000 <= nowMs

\* isTokenExpired(token) at Date.now() = nowMs.
isTokenExpired(token, nowMs) ==
  LET payload == decodeJwtPayload(token)
      exp == OptGet(payload, "exp")
  IN  IF ~Truthy(exp) THEN FALSE
      ELSE exp.t = "number" /\ exp.v * 1000 <= nowMs

\* A defective display name: the response's displayName is used as it came.
displayNameUntrimmed(displayName, firstName, lastName) ==
  IF ~IsNullish(displayName) /\ trim(displayName.v) # "" THEN displayName.v
  ELSE trim(firstName \o (" " \o lastName))

\* loginResponse.displayName?.trim() || `${firstName} ${lastName}`.trim()
displayNameOf(displayName, firstName, lastName) ==
  LET given == IF IsNullish(displayName) THEN "" ELSE trim(displayName.v)
  IN  IF given # "" THEN given ELSE trim(firstName \o (" " \o lastName))

\* createSessionFromLogin(loginResponse): null or the session object.
createSessionFromLogin(loginResponse) ==
  LET payload == decodeJwtPayload(loginResponse.token)
      id == getUserIdFromPayload(payload)
      firstName == Coalesce(loginResponse.firstName, Str("")).v
      lastName == Coalesce(loginResponse.lastName, Str("")).v
  IN  IF ~Truthy(payload) THEN Null
      ELSE IF id = "" THEN Null
      ELSE Obj(
             ("token" :> Str(loginResponse.token))
          @@ ("user" :> Obj(
                 ("id" :> Str(id))
              @@ ("role" :> Str(getRoleFromPayload(payload)))
              @@ ("email" :> Str(getEmailFromPayload(payload)))
              @@ ("firstName" :> Str(firstName))
              @@ ("lastName" :> Str(lastName))
              @@ ("displayName" :>
                    Str(displayNameOf(loginResponse.displayName, firstName, lastName)))
              @@ ("mobileNumber" :> Coalesce(loginResponse.mobileNumber, Undefined))
              @@ ("avatarPath" :> Coalesce(loginResponse.avatarPath, Undefined)))))

(***************************************************************************)
(* Browser storage.  localStorage.getItem gives null (NoItem) or a text.   *)
(* A text is modelled by whether it is the empty string and by what        *)
(* JSON.parse does on it: throw, or return a value.  JSON.stringify omits  *)
(* the properties whose value is undefined.                                *)
(***************************************************************************)
NoItem == [t |-> "absent"]
Text(isEmpty, parsed) == [t |-> "text", empty |-> isEmpty, parse |-> parsed]
EmptyText == Text(TRUE, Throws)
GarbageText == Text(FALSE, Throws)
JsonText(v) == Text(FALSE, Returns(v))

RECURSIVE Serializable(_)
Serializable(v) ==
  IF v.t = "object"
  THEN Obj([k \in {kk \in DOMAIN v.f : v.f[kk] # Undefined} |-> Serializable(v.f[k])])
  ELSE v

JSONStringify(v) == JsonText(Serializable(v))

\* readStoredSession() at Date.now() = nowMs with `raw` under AUTH_STORAGE_KEY:
\* the value returned, the storage entry afterwards, and what isTokenExpired
\* returned when the read got as far as calling it.
readStoredSession(raw, nowMs) ==
  LET kept(v) == [result |-> v, storage |-> raw, expired |-> <<>>]
      removed == [result |-> Null, storage |-> NoItem, expired |-> <<>>]
  IN  IF raw.t = "absent" \/ raw.empty THEN kept(Null)
      ELSE IF raw.parse = Throws THEN removed
      ELSE LET session == raw.parse[1]
               token == Get(session, "token")
           IN  IF IsNullish(session) THEN removed
               ELSE IF ~Truthy(token) THEN removed
               ELSE IF ~Truthy(OptGet(Get(session, "user"), "id")) THEN removed
               ELSE IF token.t # "string" THEN removed
               ELSE LET expired == isTokenExpired(token.v, nowMs)
                    IN  [(IF expired THEN removed ELSE kept(session))
                           EXCEPT !.expired = <<expired>>]

\* A defective writeStoredSession: the entry is removed whatever the session.
writeStoredSessionNever(session) == NoItem

\* A defective writeStoredSession: null is serialized like a session instead
\* of the entry being removed.
writeStoredSessionAlways(session) == JSONStringify(session)

\* writeStoredSession(session): the storage entry afterwards.
writeStoredSession(session) ==
  IF ~Truthy(session) THEN NoItem ELSE JSONStringify(session)

\* getStoredToken(): the token or null, and the storage entry afterwards.
getStoredToken(raw, nowMs) ==
  LET read == readStoredSession(raw, nowMs)
  IN  [token |-> Coalesce(OptGet(read.result, "token"), Null),
       storage |-> read.storage]

(***************************************************************************)
(* lib/api: the beforeRequest hook of apiClient.  The Authorization header *)
(* the request leaves with (undefined when none is set), and the storage   *)
(* entry afterwards.                                                       *)
(***************************************************************************)
beforeRequest(raw, nowMs) ==
  LET got == getStoredToken(raw, nowMs)
  IN  [authorization |-> IF Truthy(got.token) THEN Str("Bearer " \o got.token.v)
                         ELSE Undefined,
       storage |-> got.storage]

(***************************************************************************)
(* lib/api: errors.  An error value carries the class it is an instance of *)
(* and its message; a thrown value that is no Error has class "value".     *)
(* An array is its sequence of items; an object whose property order       *)
(* matters also carries its own keys in insertion order.                   *)
(***************************************************************************)
NETWORK_ERROR_MESSAGE ==
  "Unable to reach API from browser. Check VITE_API_BASE_URL, CORS, and HTTPS/HTTP mismatch."
FALLBACK_ERROR_MESSAGE == "Something went wrong. Please try again."

Arr(items) == [t |-> "object", items |-> items]
Ordered(keys, f) == [t |-> "object", f |-> f, keys |-> keys]

\* Object.values(o)
ObjectValues(o) == [i \in DOMAIN o.keys |-> o.f[o.keys[i]]]

\* list[0] and list?.[0]
First(list) == IF Len(list) = 0 THEN Undefined ELSE list[1]
OptFirst(a) == IF IsNullish(a) THEN Undefined ELSE First(a.items)

\* String.prototype.toLowerCase over the strings of the model that are not
\* in lower case already.
LowerCase ==
     ("Failed to fetch" :> "failed to fetch")
  @@ ("NetworkError when attempting to fetch resource." :>
        "networkerror when attempting to fetch resource.")
  @@ ("Load failed" :> "load failed")
  @@ ("The Internet connection appears to be offline." :>
        "the internet connection appears to be offline.")
  @@ ("Unexpected token < in JSON" :> "unexpected token < in json")
  @@ ("Application/JSON" :> "application/json")
  @@ ("Admin" :> "admin")
  @@ ("Npo" :> "npo")
  @@ ("Editor" :> "editor")
  @@ ("Donor" :> "donor")
toLowerCase(s) == IF s \in DOMAIN LowerCase THEN LowerCase[s] ELSE s

\* String.prototype.includes, and a match of an alternation of literals: the
\* string is something, the literal, something.
Fragments ==
  {"", "failed to ", "networkerror when attempting to ", " resource.",
   " when attempting to fetch resource.", "; charset=utf-8"}
includes(s, literal) ==
  \E before \in Fragments, after \in Fragments : s = before \o (literal \o after)

\* /failed to fetch|networkerror|load failed|fetch/i.test(message)
isNetworkError(message) ==
  \E literal \in {"failed to fetch", "networkerror", "load failed", "fetch"} :
     includes(toLowerCase(message), literal)

\* instanceof Error
IsError(error) == error.class # "value"

ApiRequestError(message, status, data) ==
  [class |-> "ApiRequestError", message |-> message, status |-> status, data |-> data]

\* parseErrorBody(response): the parsed JSON body, the text, or null.
parseErrorBody(response) ==
  LET contentType == IF IsNullish(response.contentType) THEN ""
                     ELSE toLowerCase(response.contentType.v)
  IN  IF includes(contentType, "application/json")
      THEN IF response.json = Throws THEN Null ELSE response.json[1]
      ELSE IF response.text # "" THEN Str(response.text) ELSE Null

\* A defective normalizeApiError: a timeout is handled like any other Error.
normalizeWithoutTimeout(error) ==
  IF error.class = "HTTPError"
  THEN ApiRequestError(error.message, Num(error.response.status),
                       parseErrorBody(error.response))
  ELSE IF IsError(error)
  THEN ApiRequestError(IF isNetworkError(error.message) THEN NETWORK_ERROR_MESSAGE
                       ELSE error.message,
                       Undefined, Undefined)
  ELSE ApiRequestError(FALLBACK_ERROR_MESSAGE, Undefined, Undefined)

\* normalizeApiError(error)
normalizeApiError(error) ==
  IF error.class = "HTTPError"
  THEN ApiRequestError(error.message, Num(error.response.status),
                       parseErrorBody(error.response))
  ELSE IF error.class = "TimeoutError"
  THEN ApiRequestError("Request timed out.", Undefined, Undefined)
  ELSE IF IsError(error)
  THEN ApiRequestError(IF isNetworkError(error.message) THEN NETWORK_ERROR_MESSAGE
                       ELSE error.message,
                       Undefined, Undefined)
  ELSE ApiRequestError(FALLBACK_ERROR_MESSAGE, Undefined, Undefined)

\* A defective catch clause: the error is thrown on as it came.
rethrow(error) == error

\* requestJson / requestVoid: what the call rejects with when the client
\* throws `error`.
requestRejection(error) == normalizeApiError(error)

\* readApiErrorMessage(data): the message found, or null.
readApiErrorMessage(data) ==
  IF ~Truthy(data) \/ data.t # "object" THEN Null
  ELSE LET errors == Get(data, "errors")
           firstError == IF Truthy(errors) THEN OptFirst(First(ObjectValues(errors)))
                         ELSE Undefined
       IN  IF Truthy(firstError) THEN firstError
           ELSE IF Truthy(Get(data, "detail")) THEN Get(data, "detail")
           ELSE IF Truthy(Get(data, "title")) THEN Get(data, "title")
           ELSE Null

\* extractApiErrorMessage(error)
extractApiErrorMessage(error) ==
  LET parsedMessage == IF error.class = "ApiRequestError"
                       THEN readApiErrorMessage(error.data) ELSE Null
  IN  IF error.class = "ApiRequestError" /\ Truthy(parsedMessage)
      THEN parsedMessage.v
      ELSE IF /\ error.class = "ApiRequestError"
              /\ error.data.t = "string" /\ trim(error.data.v) # ""
      THEN error.data.v
      ELSE IF error.class = "ApiRequestError" /\ error.message # ""
      THEN error.message
      ELSE IF IsError(error)
      THEN IF isNetworkError(error.message) THEN NETWORK_ERROR_MESSAGE
           ELSE IF error.message # "" THEN error.message
           ELSE FALLBACK_ERROR_MESSAGE
      ELSE FALLBACK_ERROR_MESSAGE

(***************************************************************************)
(* components/auth-provider: applyProfileUpdate's state updater.  The next *)
(* session and the storage entry afterwards.                               *)
(***************************************************************************)
\* A defective updater: the next session is kept in memory only.
applyProfileUpdateUnsaved(current, payload, raw) ==
  IF ~Truthy(current) THEN [session |-> current, storage |-> raw]
  ELSE LET user == Get(current, "user")
           changed ==
                ("email" :> payload.email)
             @@ ("firstName" :> payload.firstName)
             @@ ("lastName" :> payload.lastName)
             @@ ("displayName" :>
                   Str(trim(payload.firstName.v \o (" " \o payload.lastName.v))))
             @@ ("role" :> payload.role)
             @@ ("mobileNumber" :> Coalesce(payload.mobileNumber, Undefined))
             @@ ("avatarPath" :> Coalesce(payload.avatarPath, Undefined))
           nextSession == Obj(("user" :> Obj(changed @@ user.f)) @@ current.f)
       IN  [session |-> nextSession, storage |-> raw]

\* A defective updater: without a current session, one is made of the response.
applyProfileUpdateFromNothing(current, payload, raw) ==
  LET user == OptGet(current, "user")
      changed ==
           ("email" :> payload.email)
        @@ ("firstName" :> payload.firstName)
        @@ ("lastName" :> payload.lastName)
        @@ ("role" :> payload.role)
      nextSession ==
        Obj(("user" :> Obj(IF user.t = "object" THEN changed @@ user.f ELSE changed))
            @@ (IF ~Truthy(current) THEN <<>> ELSE current.f))
  IN  [session |-> nextSession, storage |-> JSONStringify(nextSession)]

applyProfileUpdate(current, payload, raw) ==
  IF ~Truthy(current) THEN [session |-> current, storage |-> raw]
  ELSE LET user == Get(current, "user")
           changed ==
                ("email" :> payload.email)
             @@ ("firstName" :> payload.firstName)
             @@ ("lastName" :> payload.lastName)
             @@ ("displayName" :>
                   Str(trim(payload.firstName.v \o (" " \o payload.lastName.v))))
             @@ ("role" :> payload.role)
             @@ ("mobileNumber" :> Coalesce(payload.mobileNumber, Undefined))
             @@ ("avatarPath" :> Coalesce(payload.avatarPath, Undefined))
           nextSession == Obj(("user" :> Obj(changed @@ user.f)) @@ current.f)
       IN  [session |-> nextSession, storage |-> writeStoredSession(nextSession)]

(***************************************************************************)
(* lib/api: apiClient.  ky.create is given a prefixUrl and hooks and no     *)
(* retry option, so the client keeps ky's retry defaults: a request of a    *)
(* retried method that fails is sent again, up to the limit, unless it      *)
(* timed out or was answered with a status outside the retried ones.        *)
(***************************************************************************)
Methods == {"get", "post", "put", "patch", "delete"}

\* ky's decision on the error of an attempt, retryCount retries having been
\* made.  A SyntaxError comes from reading the body, after the attempts.
\* 413 is retried only when the response names a Retry-After.
shouldRetry(method, retryCount, error) ==
  LET retryLimit == 2
      retryMethods == {"get", "put", "head", "delete", "options", "trace"}
      retryStatusCodes == {408, 429, 500, 502, 503, 504}
  IN  /\ method \in retryMethods
      /\ retryCount < retryLimit
      /\ error.class \notin {"TimeoutError", "SyntaxError"}
      /\ error.class = "HTTPError" => error.response.status \in retryStatusCodes

(***************************************************************************)
(* lib/bank-details.  localStorage holds the session entry under           *)
(* AUTH_STORAGE_KEY and the other items by key; an item is absent or a     *)
(* text, as for the session entry.                                         *)
(***************************************************************************)
BANK_KEY_PREFIX == "hadyaa.admin.bank."

BankFields ==
  {"accountHolderName", "bankName", "accountNumber", "iban", "swiftCode",
   "routingNumber"}

EMPTY_BANK_DETAILS == Obj([k \in BankFields |-> Str("")])

\* A defective getStorageKey: one key for every user.
getStorageKeyShared(userId) == BANK_KEY_PREFIX

getStorageKey(userId) == BANK_KEY_PREFIX \o userId

\* localStorage.setItem(key, text): the items and the session entry afterwards.
setItem(items, entry, key, text) ==
  IF key = AUTH_STORAGE_KEY THEN [items |-> items, entry |-> text]
  ELSE [items |-> [items EXCEPT ![key] = text], entry |-> entry]

\* A defective readBankDetails: an entry that gives no record is removed.
readBankDetailsPurging(userId, items) ==
  LET raw == items[getStorageKey(userId)]
  IN  IF raw.t = "text" /\ ~raw.empty /\ raw.parse # Throws /\ raw.parse[1].t = "object"
      THEN [result |-> Obj([k \in BankFields |->
                              Coalesce(Get(raw.parse[1], k), Str(""))]),
            items |-> items]
      ELSE [result |-> EMPTY_BANK_DETAILS,
            items |-> [items EXCEPT ![getStorageKey(userId)] = NoItem]]

\* readBankDetails(userId): the record returned and the items afterwards.
\* Reading a property of null throws inside the try block.
readBankDetails(userId, items) ==
  LET raw == items[getStorageKey(userId)]
      returns(v) == [result |-> v, items |-> items]
  IN  IF raw.t = "absent" \/ raw.empty THEN returns(EMPTY_BANK_DETAILS)
      ELSE IF raw.parse = Throws THEN returns(EMPTY_BANK_DETAILS)
      ELSE IF IsNullish(raw.parse[1]) THEN returns(EMPTY_BANK_DETAILS)
      ELSE returns(Obj([k \in BankFields |->
                          Coalesce(Get(raw.parse[1], k), Str(""))]))

\* A defective writeBankDetails: an empty field keeps the stored value.
writeBankDetailsMerged(userId, details, items, entry) ==
  LET earlier == readBankDetails(userId, items).result
      merged == Obj([k \in BankFields |->
                       IF Get(details, k) = Str("") THEN Get(earlier, k)
                       ELSE Get(details, k)])
  IN  setItem(items, entry, getStorageKey(userId), JSONStringify(merged))

\* writeBankDetails(userId, details): the items and the session entry
\* afterwards.
writeBankDetails(userId, details, items, entry) ==
  setItem(items, entry, getStorageKey(userId), JSONStringify(details))

\* The users whose bank details the pages read and write, the records the
\* form holds, and what the items may hold at page load.
UserIds == {"u1", "u2"}
BankKeys == {getStorageKey(u) : u \in UserIds}

BankRecord(holder, name, iban) ==
  Obj([k \in BankFields |->
         CASE k = "accountHolderName" -> Str(holder)
           [] k = "bankName" -> Str(name)
           [] k = "iban" -> Str(iban)
           [] OTHER -> Str("")])

BankRecords == {BankRecord("Ann", "", ""), BankRecord("Bob", "Bank", "PK36")}

InitialBankItems ==
  { items \in [BankKeys ->
                 { NoItem, EmptyText, GarbageText, JsonText(Null), JsonText(Num(5)),
                   JsonText(Obj("bankName" :> Str("Old Bank"))),
                   JsonText(BankRecord("Old", "Old Bank", "OLD1")) }] :
      \A u \in UserIds \ {"u1"} :
         items[getStorageKey(u)] \in {NoItem, JsonText(BankRecord("Old", "Old Bank", "OLD1"))} }

(***************************************************************************)
(* routes: the projects list page and the edit page.  A render derives     *)
(* userId, isAdmin and isNpo from the session; loadData keeps the ones of   *)
(* the render that created it.                                              *)
(***************************************************************************)
\* session?.user.id ?? ""
sessionUserId(s) == Coalesce(OptGet(OptGet(s, "user"), "id"), Str(""))

\* session?.user.role.toLowerCase() ?? ""
normalizedRole(s) ==
  IF IsNullish(s) THEN "" ELSE toLowerCase(Get(Get(s, "user"), "role").v)

isAdmin(s) == normalizedRole(s) = "admin"
isNpo(s) == normalizedRole(s) = "npo"
canManageProjects(s) == isAdmin(s) \/ isNpo(s)

\* DashboardProjectsPage.loadData after the await: scopedProjects.
scopedProjects(load, projectsResponse) ==
  IF load.isAdmin THEN projectsResponse
  ELSE SelectSeq(projectsResponse, LAMBDA p : p.npoUserId = load.userId)

NOT_ALLOWED_MESSAGE == "You are not allowed to edit this project."

\* EditProjectPage.loadData after the await: the project and errorMessage
\* states afterwards.
editLoaded(load, projectResponse, message) ==
  IF load.isNpo /\ projectResponse.npoUserId # load.userId
  THEN [project |-> Null, errorMessage |-> Str(NOT_ALLOWED_MESSAGE)]
  ELSE [project |-> projectResponse, errorMessage |-> message]

\* The projects the server holds, and what a listing may answer.
\* By id, with the id of the owner.
ServerProjects ==
  LET owner == ("p1" :> "u1") @@ ("p2" :> "u2") @@ ("p3" :> "u3")
  IN  [id \in DOMAIN owner |-> [t |-> "object", id |-> id, npoUserId |-> Str(owner[id])]]

ProjectsResponses ==
  {<<>>, <<ServerProjects["p1"], ServerProjects["p2"], ServerProjects["p3"]>>,
   <<ServerProjects["p2"]>>}

(***************************************************************************)
(* routes: the media inputs of the create-project form and of the edit     *)
(* form.  A file is its MIME type and its size in bytes.                   *)
(***************************************************************************)
MAX_IMAGE_COUNT == 10
MAX_VIDEO_COUNT == 1
MAX_IMAGE_SIZE_BYTES == 5 * 1024 * 1024
MAX_VIDEO_SIZE_BYTES == 20 * 1024 * 1024

File(type, size) == [type |-> type, size |-> size]

\* String.prototype.startsWith on a MIME type: the prefix, then a subtype.
startsWith(s, prefix) == \E rest \in {"png", "jpeg", "mp4", "pdf"} : s = prefix \o rest

\* Array.prototype.slice(0, Math.max(end, 0))
slice(list, end) ==
  SubSeq(list, 1, IF end < 0 THEN 0 ELSE IF Len(list) < end THEN Len(list) ELSE end)

\* A defective onChange: the merged list is kept whole.
onChangeUncut(current, files, prefix, maxSize, remainingSlots) ==
  LET typed == SelectSeq(files, LAMBDA file : startsWith(file.type, prefix))
  IN  IF \E i \in DOMAIN typed : typed[i].size > maxSize THEN current
      ELSE current \o typed

\* onChange of a media input: the selected list afterwards.  The create form
\* has MAX_IMAGE_COUNT or MAX_VIDEO_COUNT slots, the edit form those the
\* project's uploaded media leave.
onChange(current, files, prefix, maxSize, remainingSlots) ==
  LET typed == SelectSeq(files, LAMBDA file : startsWith(file.type, prefix))
      merged == current \o typed
  IN  IF \E i \in DOMAIN typed : typed[i].size > maxSize THEN current
      ELSE slice(merged, remainingSlots)

\* current.filter((_, itemIndex) => itemIndex !== index), index from 0
removeAt(current, index) ==
  [i \in 1..(Len(current) - 1) |-> IF i <= index THEN current[i] ELSE current[i + 1]]

\* What the user picks at once in a file dialog or drops on an input.
FileBatches ==
  LET AtLimitImage == File("image/jpeg", MAX_IMAGE_SIZE_BYTES)
      SmallVideo == File("video/mp4", 1)
      AtLimitVideo == File("video/mp4", MAX_VIDEO_SIZE_BYTES)
  IN
  { <<>>,
    <<AtLimitImage>>,
    <<AtLimitImage, File("video/mp4", MAX_IMAGE_SIZE_BYTES + 1), File("application/pdf", 1)>>,
    <<File("image/png", 1), File("image/png", MAX_IMAGE_SIZE_BYTES + 1)>>,
    [i \in 1..(MAX_IMAGE_COUNT + 1) |-> AtLimitImage],
    <<SmallVideo>>,
    <<AtLimitVideo, SmallVideo>>,
    <<SmallVideo, File("video/mp4", MAX_VIDEO_SIZE_BYTES + 1)>> }

(***************************************************************************)
(* routes: the dashboard layout and the login page.  What DashboardLayout  *)
(* renders, and where the effects of the page shown navigate to.           *)
(***************************************************************************)
Routes == {"/login", "/dashboard/projects"}

\* Boolean(session?.token)
authenticated(s) == Truthy(OptGet(s, "token"))

\* DashboardLayout's return value.
DashboardLayout(hydrated, s) ==
  IF ~hydrated \/ ~authenticated(s) \/ ~Truthy(s) THEN "loading" ELSE "content"

\* A defective effect: the redirect does not wait for hydration.
dashboardEffectUnhydrated(hydrated, s) ==
  IF authenticated(s) THEN "/dashboard/projects" ELSE "/login"

\* DashboardLayout's effect: the route afterwards.
dashboardEffect(hydrated, s) ==
  IF ~hydrated \/ authenticated(s) THEN "/dashboard/projects" ELSE "/login"

\* LoginPage's effect: the route afterwards.
loginEffect(hydrated, s) ==
  IF ~hydrated \/ ~authenticated(s) THEN "/login" ELSE "/dashboard/projects"

\* The effects of the page at `to`, run for the given state.
navigateEffects(to, hydrated, s) ==
  IF to = "/login" THEN loginEffect(hydrated, s) ELSE dashboardEffect(hydrated, s)

(***************************************************************************)
(* The server's answers, and what the storage may hold at page load.       *)
(***************************************************************************)
LoginResponseBody(token, firstName, displayName) ==
  [token |-> token, firstName |-> firstName, lastName |-> Str("B"),
   displayName |-> displayName, mobileNumber |-> Null, avatarPath |-> Null]

LoginResponses ==
  { LoginResponseBody(tk, Str("A"), dn) : tk \in Tokens, dn \in {Undefined, Str(" D ")} }
  \cup { LoginResponseBody("h.{sub:u1,exp:2}.s", Null, Str("  ")) }

UpdateUserResponses ==
  { [email |-> Str("n@x"), firstName |-> Str(" A"), lastName |-> Str(""),
     role |-> Str("Npo"), mobileNumber |-> Str("555"), avatarPath |-> Null] }

\* What an error response carries: status, content-type header (null when
\* absent), the body text and what response.json() does on it.
Response(status, contentType, text, json) ==
  [status |-> status, contentType |-> contentType, text |-> text, json |-> json]

EmailRequired ==
  Obj("errors" :> Ordered(<<"email">>, "email" :> Arr(<<Str("Email is required")>>)))
LaterFieldInvalid ==
  Obj(   ("errors" :> Ordered(<<"name", "email">>,
                         ("name" :> Arr(<<>>))
                      @@ ("email" :> Arr(<<Str("Email is required")>>))))
      @@ ("detail" :> Str("Validation failed"))
      @@ ("title" :> Str("Bad Request")))
InvalidCredentials ==
  Obj(("detail" :> Str("Invalid credentials")) @@ ("title" :> Str("Unauthorized")))
NotFound == Obj("title" :> Str("Not Found"))

JsonType == Str("application/json; charset=utf-8")

ErrorResponses ==
  { Response(422, JsonType, "{errors:{email:[Email is required]}}", Returns(EmailRequired)),
    Response(422, Str("application/problem+json; charset=utf-8"),
             "{errors:{email:[Email is required]}}", Returns(EmailRequired)),
    Response(400, JsonType, "{errors:{name:[],email:[Email is required]},..}",
             Returns(LaterFieldInvalid)),
    Response(401, Str("Application/JSON"), "{detail:Invalid credentials,..}",
             Returns(InvalidCredentials)),
    Response(404, JsonType, "{title:Not Found}", Returns(NotFound)),
    Response(409, JsonType, "{}", Returns(Obj(<<>>))),
    Response(502, JsonType, "<html>", Throws),
    Response(500, Str("text/plain"), "Server exploded", Throws),
    Response(503, Null, "", Throws) }

HTTPError(response) ==
  [class |-> "HTTPError",
   message |-> "Request failed with status code " \o ToString(response.status),
   response |-> response]
TimeoutError == [class |-> "TimeoutError", message |-> "Request timed out: POST login"]
Error(class, message) == [class |-> class, message |-> message]
ThrownValue == [class |-> "value"]

\* What fetch rejects with when no response arrives, by browser.
TransportErrors ==
  { Error("TypeError", m) :
      m \in {"Failed to fetch", "NetworkError when attempting to fetch resource.",
             "Load failed", "The Internet connection appears to be offline."} }

\* What a listing request of the dashboard fails with.
ListingErrors ==
  { HTTPError(Response(500, Str("text/plain"), "Server exploded", Throws)),
    Error("TypeError", "Failed to fetch") }

\* What a request through apiClient can throw.
RequestErrors ==
  {HTTPError(r) : r \in ErrorResponses} \cup {TimeoutError} \cup TransportErrors
  \cup {Error("SyntaxError", "Unexpected token < in JSON"), Error("Error", ""),
        ThrownValue}

StoredUser == Obj(("id" :> Str("u1")) @@ ("role" :> Str("Npo")))

InitialStorage ==
  { NoItem, EmptyText, GarbageText,
    JsonText(Null), JsonText(Num(5)), JsonText(Obj(<<>>)),
    JsonText(Obj("user" :> StoredUser)),
    JsonText(Obj("token" :> Str("h.{sub:u1}.s"))),
    JsonText(Obj(("token" :> Str("h.{sub:u1}.s")) @@ ("user" :> Obj(<<>>)))),
    JsonText(Obj(("token" :> Num(5)) @@ ("user" :> StoredUser))) }
  \cup { JsonText(Obj(("token" :> Str(tk)) @@ ("user" :> StoredUser))) : tk \in Tokens }

(***************************************************************************)
(* lib/api: the dashboard aggregation.                                     *)
(*                                                                         *)
(* Numbers: a finite number, NaN or -Infinity.  Date strings: DateTime     *)
(* gives new Date(s).getTime() for the date strings of the model, in days  *)
(* since the epoch.                                                        *)
(***************************************************************************)
NaN == [t |-> "NaN"]
NegativeInfinity == [t |-> "-Infinity"]
PositiveInfinity == [t |-> "+Infinity"]

DateTime ==
     ("2024-06-01" :> Num(19875))
  @@ ("2024-01-01" :> Num(19723))
  @@ ("1969-12-31" :> Num(-1))
  @@ ("1969-12-31T00:00:00Z" :> Num(-1))
  @@ ("not a date" :> NaN)
  @@ ("" :> NaN)

\* toDateEpoch(value)
toDateEpoch(value) ==
  IF ~Truthy(value) THEN NegativeInfinity
  ELSE LET epoch == DateTime[value.v]
       IN  IF epoch = NaN THEN NegativeInfinity ELSE epoch

\* getProjectCreatedDate(project)
getProjectCreatedDate(project) ==
  Coalesce(Coalesce(project.createdOn, project.createdAt), project.startDate)

\* x - y on numbers that are finite or -Infinity.
Minus(x, y) ==
  CASE x = NegativeInfinity /\ y = NegativeInfinity -> NaN
    [] x = NegativeInfinity -> NegativeInfinity
    [] y = NegativeInfinity -> PositiveInfinity
    [] OTHER -> Num(x.v - y.v)

\* A defective comparator: ascending.
compareProjectsAscending(a, b) ==
  Minus(toDateEpoch(getProjectCreatedDate(a)), toDateEpoch(getProjectCreatedDate(b)))

\* The comparator passed to sort.
compareProjects(a, b) ==
  Minus(toDateEpoch(getProjectCreatedDate(b)), toDateEpoch(getProjectCreatedDate(a)))

\* Array.prototype.sort reads the comparator's result by its sign, NaN as 0.
IsPositive(n) == n = PositiveInfinity \/ (n.t = "number" /\ n.v > 0)

\* Array.prototype.sort with compareProjects: a stable sort.
RECURSIVE insertSorted(_, _)
insertSorted(sorted, x) ==
  IF sorted = <<>> THEN <<x>>
  ELSE IF IsPositive(compareProjects(Head(sorted), x)) THEN <<x>> \o sorted
  ELSE <<Head(sorted)>> \o insertSorted(Tail(sorted), x)

RECURSIVE sortProjects(_)
sortProjects(list) ==
  IF list = <<>> THEN <<>>
  ELSE insertSorted(sortProjects(SubSeq(list, 1, Len(list) - 1)), list[Len(list)])

\* projectsByCategory.flat()
RECURSIVE flat(_)
flat(lists) == IF lists = <<>> THEN <<>> ELSE Head(lists) \o flat(Tail(lists))

\* categoryMap.get(id): the last category of the list with that id.
categoryMapGet(cats, id) ==
  IF \E i \in DOMAIN cats : cats[i].id = id
  THEN LET i == CHOOSE k \in DOMAIN cats :
                  cats[k].id = id /\ \A m \in DOMAIN cats : cats[m].id = id => m <= k
       IN  Obj(("id" :> Num(cats[i].id)) @@ ("name" :> Str(cats[i].name)))
  ELSE Undefined

\* A defective forEach: a later occurrence of an id replaces the earlier one.
RECURSIVE dedupeLastWins(_, _, _)
dedupeLastWins(projects, cats, kept) ==
  IF projects = <<>> THEN kept
  ELSE LET project == Head(projects)
           entry == [project EXCEPT !.category =
                       Coalesce(Coalesce(project.category,
                                         categoryMapGet(cats, project.categoryId)),
                                Null)]
       IN  IF \E i \in DOMAIN kept : kept[i].id = project.id
           THEN dedupeLastWins(Tail(projects), cats,
                  [i \in DOMAIN kept |->
                     IF kept[i].id = project.id THEN entry ELSE kept[i]])
           ELSE dedupeLastWins(Tail(projects), cats, Append(kept, entry))

\* The forEach over the flattened listings: the values of `deduped`, in
\* insertion order.
RECURSIVE dedupe(_, _, _)
dedupe(projects, cats, kept) ==
  IF projects = <<>> THEN kept
  ELSE LET project == Head(projects)
           entry == [project EXCEPT !.category =
                       Coalesce(Coalesce(project.category,
                                         categoryMapGet(cats, project.categoryId)),
                                Null)]
       IN  IF \E i \in DOMAIN kept : kept[i].id = project.id
           THEN dedupe(Tail(projects), cats, kept)
           ELSE dedupe(Tail(projects), cats, Append(kept, entry))

\* getProjectsForDashboard after Promise.all resolved with projectsByCategory.
combineProjects(cats, projectsByCategory) ==
  sortProjects(dedupe(flat(projectsByCategory), cats, <<>>))

(***************************************************************************)
(* The backend's data for the dashboard.                                   *)
(***************************************************************************)
Project(id, categoryId, category, createdOn, createdAt, startDate) ==
  [id |-> id, categoryId |-> categoryId, category |-> category,
   createdOn |-> createdOn, createdAt |-> createdAt, startDate |-> startDate]

Projects ==
  { Project("p1", 1, Undefined, Str("2024-06-01"), Undefined, Str("2024-01-01")),
    Project("p1", 1, Null, Undefined, Str("1969-12-31"), Str("2024-06-01")),
    Project("p2", 2, Undefined, Null, Undefined, Str("1969-12-31T00:00:00Z")),
    Project("p3", 2, Undefined, Str("not a date"), Str("2024-06-01"), Str("2024-06-01")),
    Project("p4", 3, Undefined, Undefined, Undefined, Str("")) }

CategoryIds == {1, 2}
Category(id) == [id |-> id, name |-> IF id = 1 THEN "A" ELSE "B"]

\* The categories responses: the empty list and every order of the categories.
CategoryLists ==
  { <<>>, <<Category(1), Category(2)>>, <<Category(2), Category(1)>> }

RECURSIVE ListsUpTo(_)
ListsUpTo(n) ==
  IF n = 0 THEN { <<>> }
  ELSE ListsUpTo(n - 1)
       \cup { Append(l, q) : l \in {m \in ListsUpTo(n - 1) : Len(m) = n - 1}, q \in Projects }

Failed == [ok |-> FALSE]
Listing(list) == [ok |-> TRUE, body |-> list]
Pending == [ok |-> FALSE, pending |-> TRUE]

\* What projects/by-category/<id> answers.
ListingResponses == { Listing(l) : l \in ListsUpTo(MaxListLen) } \cup { Failed }

(***************************************************************************)
(* State                                                                   *)
(***************************************************************************)
VARIABLES
  storage,      \* localStorage entry under AUTH_STORAGE_KEY
  now,          \* Date.now(), in milliseconds
  session,      \* AuthProvider: useState session
  isHydrated,   \* AuthProvider: useState isHydrated
  isSubmitting, \* LoginPage: a login request is in flight
  isSavingProfile, \* profile page: an update request is in flight
  lastOp,       \* the step taken last
  lastRead,     \* the readStoredSession call of the last step, if it made one
  lastRequest,  \* the request the last step sent, if it sent one
  lastLogin,    \* the login response the last step handled, if it handled one
  lastError,    \* the error the last step caught, if it caught one
  route,        \* the page the router shows
  sinceLogout,  \* a logout happened and no login succeeded since
  backend,      \* what the server answers for each category's listing
  dashboard,    \* getProjectsForDashboard: where the call stands
  categories,   \* getProjectsForDashboard: the categories received
  projectsByCategory, \* Promise.all: the listings received so far, by index
  arrivals,     \* the indexes of the listings in the order they arrived
  projects,     \* what getProjectsForDashboard resolved with
  dashError,    \* what getProjectsForDashboard rejected with
  bank,         \* localStorage: the items under the other keys
  lastBank,     \* the bank details call of the last step, if it made one
  written,      \* by user, the bank details written last, if any were
  call,         \* an apiClient call: its method, where it stands, what it sent
  projectPage,  \* which of the two project pages is mounted, if one is
  listLoads,    \* DashboardProjectsPage: the loadData calls in flight
  pageProjects, \* DashboardProjectsPage: the projects state
  editLoads,    \* EditProjectPage: the loadData calls in flight
  project,      \* EditProjectPage: the project state
  errorMessage, \* EditProjectPage: the errorMessage state
  mediaPage,    \* which project form is shown: "create" or "edit"
  uploaded,     \* edit form: project.images.length and project.videos.length
  selectedImages, \* the form's selected image files
  selectedVideos, \* the form's selected video files
  lastSelection \* the file selection of the last step, if it made one

authVars == <<storage, now, session, isHydrated, isSubmitting, isSavingProfile,
              lastOp, lastRead, lastRequest, lastLogin, lastError, sinceLogout,
              route>>

dashVars == <<backend, dashboard, categories, projectsByCategory, arrivals,
             projects, dashError>>

bankVars == <<bank, lastBank, written>>

retryVars == <<call>>

projectVars == <<projectPage, listLoads, pageProjects, editLoads, project, errorMessage>>

mediaVars == <<mediaPage, uploaded, selectedImages, selectedVideos, lastSelection>>

pageVars == <<bankVars, retryVars, projectVars, mediaVars>>

vars == <<authVars, dashVars, pageVars>>

\* AuthProvider.value.isAuthenticated
isAuthenticated == Truthy(OptGet(session, "token"))

NoRead == [called |-> FALSE]
NoRequest == [sent |-> FALSE]
NoLogin == [handled |-> FALSE]
NoError == [raised |-> FALSE]
NoBank == [op |-> "none"]
NoCall == [stage |-> "idle"]
NoSelection == [made |-> FALSE]

\* The state of the pages that are not shown.
BankIdle ==
  /\ bank = [k \in BankKeys |-> NoItem]
  /\ lastBank = NoBank
  /\ written = [u \in UserIds |-> <<>>]

RetryIdle == call = NoCall

ProjectsIdle ==
  /\ projectPage = "none"
  /\ listLoads = {}
  /\ pageProjects = <<>>
  /\ editLoads = {}
  /\ project = Null
  /\ errorMessage = Null

MediaIdle ==
  /\ mediaPage = "create"
  /\ uploaded = [images |-> 0, videos |-> 0]
  /\ selectedImages = <<>>
  /\ selectedVideos = <<>>
  /\ lastSelection = NoSelection

PageIdle == BankIdle /\ RetryIdle /\ ProjectsIdle /\ MediaIdle

\* A step in which the bank details forms, the request under watch, the
\* project pages or the media inputs do not act.
bankQuiet ==
  /\ lastBank' = NoBank
  /\ UNCHANGED <<bank, written>>

retryQuiet == UNCHANGED retryVars

projectQuiet == UNCHANGED projectVars

mediaQuiet ==
  /\ lastSelection' = NoSelection
  /\ UNCHANGED <<mediaPage, uploaded, selectedImages, selectedVideos>>

\* A step of another component: no page acts.
pageQuiet == bankQuiet /\ retryQuiet /\ projectQuiet /\ mediaQuiet

ReadOf(raw, read) ==
  [called |-> TRUE, raw |-> raw, at |-> now, result |-> read.result,
   after |-> read.storage, expired |-> read.expired]

Init ==
  /\ storage \in InitialStorage
  /\ now = 1000
  /\ session = Null
  /\ isHydrated = FALSE
  /\ isSubmitting = FALSE
  /\ isSavingProfile = FALSE
  /\ lastOp = "init"
  /\ lastRead = NoRead
  /\ lastRequest = NoRequest
  /\ lastLogin = NoLogin
  /\ lastError = NoError
  /\ sinceLogout = FALSE
  /\ route \in {navigateEffects(to, FALSE, Null) : to \in Routes}
  /\ backend = [c \in CategoryIds |-> Failed]
  /\ dashboard = "idle"
  /\ categories = <<>>
  /\ projectsByCategory = <<>>
  /\ arrivals = <<>>
  /\ projects = <<>>
  /\ dashError = NoError
  /\ PageIdle

\* A request leaves through apiClient: the beforeRequest hook runs.
Send(op) ==
  LET hook == beforeRequest(storage, now)
  IN  /\ storage' = hook.storage
      /\ lastRead' = ReadOf(storage, readStoredSession(storage, now))
      /\ lastRequest' = [sent |-> TRUE, authorization |-> hook.authorization]
      /\ lastOp' = op

\* AuthProvider's mount effect.
Hydrate ==
  /\ ~isHydrated
  /\ LET read == readStoredSession(storage, now)
     IN  /\ session' = read.result
         /\ storage' = read.storage
         /\ lastRead' = ReadOf(storage, read)
  /\ isHydrated' = TRUE
  /\ lastOp' = "hydrate"
  /\ lastRequest' = NoRequest
  /\ lastLogin' = NoLogin
  /\ lastError' = NoError
  /\ UNCHANGED <<now, isSubmitting, isSavingProfile, sinceLogout>>
  /\ route' = navigateEffects(route, isHydrated', session')
  /\ UNCHANGED dashVars
  /\ pageQuiet

\* LoginPage.onSubmit up to the await: the login request is sent.
LoginSubmit ==
  /\ isHydrated /\ ~isSubmitting
  /\ isSubmitting' = TRUE
  /\ Send("loginSubmit")
  /\ lastLogin' = [handled |-> FALSE,
                   before |-> [storage |-> storage, session |-> session]]
  /\ lastError' = NoError
  /\ UNCHANGED <<now, session, isHydrated, isSavingProfile, sinceLogout, route>>
  /\ UNCHANGED dashVars
  /\ pageQuiet

\* A defective catch clause: the message of the error caught is shown as it is.
CaughtRaw(op, error) ==
  [raised |-> TRUE, op |-> op, error |-> error,
   message |-> IF IsError(error) THEN error.message ELSE ""]

\* A catch clause of the pages and of AuthProvider.login: the error caught and
\* the message extracted from it for the user.
Caught(op, error) ==
  [raised |-> TRUE, op |-> op, error |-> error,
   message |-> extractApiErrorMessage(error)]

\* The storage entry and the session when the login in flight was called,
\* as long as no other step came between.
LoginBefore == IF "before" \in DOMAIN lastLogin THEN <<lastLogin.before>> ELSE <<>>

\* AuthProvider.login after the await, the request having succeeded.
LoginResponse ==
  /\ isSubmitting
  /\ \E response \in LoginResponses :
       LET nextSession == createSessionFromLogin(response)
       IN  /\ lastLogin' = [handled |-> TRUE, response |-> response,
                            payload |-> decodeJwtPayload(response.token),
                            session |-> nextSession, before |-> LoginBefore]
           /\ IF ~Truthy(nextSession)
              THEN /\ lastOp' = "loginError"
                   /\ lastError' =
                        Caught("login", Error("Error", "Unable to parse login token."))
                   /\ UNCHANGED <<session, storage, sinceLogout, route>>
              ELSE /\ lastOp' = "loginOk"
                   /\ lastError' = NoError
                   /\ session' = nextSession
                   /\ storage' = writeStoredSession(nextSession)
                   /\ sinceLogout' = FALSE
                   /\ route' = navigateEffects("/dashboard/projects", isHydrated, nextSession)
  /\ isSubmitting' = FALSE
  /\ lastRead' = NoRead
  /\ lastRequest' = NoRequest
  /\ UNCHANGED <<now, isHydrated, isSavingProfile>>
  /\ UNCHANGED dashVars
  /\ pageQuiet

\* AuthProvider.login after the await, the request having failed.
LoginFailure ==
  /\ isSubmitting
  /\ isSubmitting' = FALSE
  /\ \E error \in RequestErrors :
       lastError' = Caught("login", requestRejection(error))
                      @@ [cause |-> error, before |-> LoginBefore]
  /\ lastOp' = "loginError"
  /\ lastRead' = NoRead
  /\ lastRequest' = NoRequest
  /\ lastLogin' = NoLogin
  /\ UNCHANGED <<storage, now, session, isHydrated, isSavingProfile, sinceLogout, route>>
  /\ UNCHANGED dashVars
  /\ pageQuiet

\* The logout button of DashboardLayout, rendered for an authenticated session.
Logout ==
  /\ isHydrated /\ isAuthenticated
  /\ session' = Null
  /\ storage' = writeStoredSession(Null)
  /\ sinceLogout' = TRUE
  /\ lastOp' = "logout"
  /\ lastRead' = NoRead
  /\ lastRequest' = NoRequest
  /\ lastLogin' = NoLogin
  /\ lastError' = NoError
  /\ UNCHANGED <<now, isHydrated, isSubmitting, isSavingProfile>>
  /\ route' = navigateEffects("/login", isHydrated', session')
  /\ UNCHANGED dashVars
  /\ pageQuiet

\* onSaveProfile up to the await: the update request is sent.
ProfileSubmit ==
  /\ isHydrated /\ isAuthenticated /\ ~isSavingProfile
  /\ isSavingProfile' = TRUE
  /\ Send("profileSubmit")
  /\ lastLogin' = NoLogin
  /\ lastError' = NoError
  /\ UNCHANGED <<now, session, isHydrated, isSubmitting, sinceLogout, route>>
  /\ UNCHANGED dashVars
  /\ pageQuiet

\* onSaveProfile after the await: applyProfileUpdate(response).
ProfileResponse ==
  /\ isSavingProfile
  /\ \E payload \in UpdateUserResponses :
       LET applied == applyProfileUpdate(session, payload, storage)
       IN  /\ session' = applied.session
           /\ storage' = applied.storage
  /\ isSavingProfile' = FALSE
  /\ lastOp' = "profileOk"
  /\ lastRead' = NoRead
  /\ lastRequest' = NoRequest
  /\ lastLogin' = NoLogin
  /\ lastError' = NoError
  /\ UNCHANGED <<now, isHydrated, isSubmitting, sinceLogout, route>>
  /\ UNCHANGED dashVars
  /\ pageQuiet

\* onSaveProfile after the await, the request having failed.
ProfileFailure ==
  /\ isSavingProfile
  /\ isSavingProfile' = FALSE
  /\ \E error \in RequestErrors :
       lastError' = Caught("profile", requestRejection(error)) @@ [cause |-> error]
  /\ lastOp' = "profileError"
  /\ lastRead' = NoRead
  /\ lastRequest' = NoRequest
  /\ lastLogin' = NoLogin
  /\ UNCHANGED <<storage, now, session, isHydrated, isSubmitting, sinceLogout, route>>
  /\ UNCHANGED dashVars
  /\ pageQuiet

\* Any other request through apiClient.
ApiRequest ==
  /\ Send("request")
  /\ lastLogin' = NoLogin
  /\ lastError' = NoError
  /\ UNCHANGED <<now, session, isHydrated, isSubmitting, isSavingProfile, sinceLogout, route>>
  /\ UNCHANGED dashVars
  /\ pageQuiet

\* The user opens a page by its address.
Navigate ==
  /\ \E to \in Routes :
       /\ route' = navigateEffects(to, isHydrated, session)
       /\ lastOp' = "open " \o to
  /\ lastRead' = NoRead
  /\ lastRequest' = NoRequest
  /\ lastLogin' = NoLogin
  /\ lastError' = NoError
  /\ UNCHANGED <<storage, now, session, isHydrated, isSubmitting, isSavingProfile, sinceLogout>>
  /\ UNCHANGED dashVars
  /\ pageQuiet

\* Time passes.
Tick ==
  /\ now < MaxTicks * 1000
  /\ now' = now + 1000
  /\ lastOp' = "tick"
  /\ lastRead' = NoRead
  /\ lastRequest' = NoRequest
  /\ lastLogin' = NoLogin
  /\ lastError' = NoError
  /\ UNCHANGED <<storage, session, isHydrated, isSubmitting, isSavingProfile, sinceLogout, route>>
  /\ UNCHANGED dashVars
  /\ pageQuiet

Next ==
  \/ Hydrate
  \/ LoginSubmit
  \/ LoginResponse
  \/ LoginFailure
  \/ Logout
  \/ ProfileSubmit
  \/ ProfileResponse
  \/ ProfileFailure
  \/ ApiRequest
  \/ Navigate
  \/ Tick

Spec == Init /\ [][Next]_vars

(***************************************************************************)
(* The bank details forms next to the session: the profile page reads and  *)
(* writes the details of a user, while logins, logouts and requests go on. *)
(***************************************************************************)
BankLoginResponses ==
  { LoginResponseBody(tk, Str("A"), Undefined) :
      tk \in {"h.{sub:u1}.s", "h.{nameid:u2,exp:9}.s"} }

BankInit ==
  /\ storage \in {GarbageText}
                  \cup {writeStoredSession(createSessionFromLogin(r)) : r \in BankLoginResponses}
  /\ now = 1000
  /\ session = Null
  /\ isHydrated = FALSE
  /\ isSubmitting = FALSE
  /\ isSavingProfile = FALSE
  /\ lastOp = "init"
  /\ lastRead = NoRead
  /\ lastRequest = NoRequest
  /\ lastLogin = NoLogin
  /\ lastError = NoError
  /\ sinceLogout = FALSE
  /\ route = "/dashboard/projects"
  /\ backend = [c \in CategoryIds |-> Failed]
  /\ dashboard = "idle"
  /\ categories = <<>>
  /\ projectsByCategory = <<>>
  /\ arrivals = <<>>
  /\ projects = <<>>
  /\ dashError = NoError
  /\ bank \in InitialBankItems
  /\ lastBank = NoBank
  /\ written = [u \in UserIds |-> <<>>]
  /\ RetryIdle /\ ProjectsIdle /\ MediaIdle

bankStep(op) ==
  /\ lastOp' = op
  /\ lastRead' = NoRead
  /\ lastRequest' = NoRequest
  /\ lastLogin' = NoLogin
  /\ lastError' = NoError
  /\ UNCHANGED <<now, session, isHydrated, isSubmitting, isSavingProfile, sinceLogout, route>>
  /\ UNCHANGED dashVars
  /\ retryQuiet /\ projectQuiet /\ mediaQuiet

\* The page loads the bank details of a user into its form.
ReadBank ==
  /\ \E userId \in UserIds :
       LET read == readBankDetails(userId, bank)
       IN  /\ bank' = read.items
           /\ lastBank' = [op |-> "read", userId |-> userId,
                           raw |-> bank[getStorageKey(userId)],
                           result |-> read.result,
                           overwrote |-> IF lastBank.op = "write" /\ lastBank.userId = userId
                                         THEN <<lastBank.previous>> ELSE <<>>]
  /\ UNCHANGED <<storage, written>>
  /\ bankStep("readBankDetails")

\* onSaveBank: the form's bank details are written for a user.
WriteBank ==
  /\ \E userId \in UserIds, details \in BankRecords :
       LET wrote == writeBankDetails(userId, details, bank, storage)
       IN  /\ bank' = wrote.items
           /\ storage' = wrote.entry
           /\ lastBank' = [op |-> "write", userId |-> userId, details |-> details,
                           previous |-> bank[getStorageKey(userId)]]
           /\ written' = [written EXCEPT ![userId] = <<details>>]
  /\ bankStep("writeBankDetails")

\* AuthProvider.login after the await, for the responses of BankLoginResponses.
BankLogin ==
  /\ LoginResponse
  /\ lastLogin'.response \in BankLoginResponses

BankNext ==
  \/ ReadBank
  \/ WriteBank
  \/ Hydrate
  \/ LoginSubmit
  \/ BankLogin
  \/ Logout
  \/ ApiRequest

BankSpec == BankInit /\ [][BankNext]_vars

(***************************************************************************)
(* lib/api: one call of requestJson or requestVoid, attempt by attempt.    *)
(***************************************************************************)
callStep ==
  /\ UNCHANGED <<now, session, isHydrated, isSubmitting, isSavingProfile, sinceLogout, route>>
  /\ UNCHANGED dashVars
  /\ bankQuiet /\ projectQuiet /\ mediaQuiet

\* No request leaves in this step.
callSettles(op) ==
  /\ lastOp' = op
  /\ lastRead' = NoRead
  /\ lastRequest' = NoRequest
  /\ lastLogin' = NoLogin
  /\ UNCHANGED storage
  /\ callStep

\* requestJson(path, options): the request is sent.
CallApi ==
  /\ call.stage = "idle"
  /\ \E method \in Methods :
       call' = [stage |-> "inFlight", method |-> method, sent |-> 1, retryCount |-> 0]
  /\ Send("call")
  /\ lastLogin' = NoLogin
  /\ lastError' = NoError
  /\ callStep

\* The response arrives with a success status.
CallSucceeds ==
  /\ call.stage = "inFlight"
  /\ call' = [call EXCEPT !.stage = "resolved"]
  /\ lastError' = NoError
  /\ callSettles("callOk")

\* The attempt fails: ky schedules another attempt, or the error reaches the
\* catch clause of requestJson.
CallFails ==
  /\ call.stage = "inFlight"
  /\ \E error \in RequestErrors :
       IF shouldRetry(call.method, call.retryCount, error)
       THEN /\ call' = [call EXCEPT !.stage = "backoff", !.retryCount = @ + 1]
            /\ lastError' = NoError
            /\ callSettles("callRetry")
       ELSE /\ call' = [stage |-> "rejected", method |-> call.method, sent |-> call.sent,
                        cause |-> error, error |-> requestRejection(error)]
            /\ lastError' = Caught("call", requestRejection(error)) @@ [cause |-> error]
            /\ callSettles("callError")

\* The delay is over: the request is sent again.
CallRetry ==
  /\ call.stage = "backoff"
  /\ call' = [call EXCEPT !.stage = "inFlight", !.sent = @ + 1]
  /\ Send("retry")
  /\ lastLogin' = NoLogin
  /\ lastError' = NoError
  /\ callStep

RetryNext ==
  \/ CallApi
  \/ CallSucceeds
  \/ CallFails
  \/ CallRetry

RetrySpec == Init /\ [][RetryNext]_vars

(***************************************************************************)
(* The projects list page or the edit page, mounted under the dashboard    *)
(* layout for a session, while a profile update sent earlier may still be  *)
(* in flight.                                                              *)
(***************************************************************************)
ProjectsInit ==
  /\ session \in
       { createSessionFromLogin(LoginResponseBody(tk, Str("A"), Undefined)) :
           tk \in {"h.{sub:u1}.s", "h.{sub:u1,exp:2}.s", "h.{nameid:u2,exp:9}.s",
                   "h.{sub:u3,role:Editor}.s"} }
  /\ storage = writeStoredSession(session)
  /\ now = 1000
  /\ isHydrated = TRUE
  /\ isSubmitting = FALSE
  /\ isSavingProfile \in BOOLEAN
  /\ lastOp = "init"
  /\ lastRead = NoRead
  /\ lastRequest = NoRequest
  /\ lastLogin = NoLogin
  /\ lastError = NoError
  /\ sinceLogout = FALSE
  /\ route = "/dashboard/projects"
  /\ backend = [c \in CategoryIds |-> Failed]
  /\ dashboard = "idle"
  /\ categories = <<>>
  /\ projectsByCategory = <<>>
  /\ arrivals = <<>>
  /\ projects = <<>>
  /\ dashError = NoError
  /\ BankIdle /\ RetryIdle /\ MediaIdle
  /\ projectPage \in {"list", "edit"}
  /\ listLoads = {}
  /\ pageProjects = <<>>
  /\ editLoads = {}
  /\ project = Null
  /\ errorMessage = Null

\* The page is rendered inside the layout: the role is a string, or
\* toLowerCase throws in the render.
PageShown(page) ==
  /\ projectPage = page
  /\ DashboardLayout(isHydrated, session) = "content"
  /\ Get(Get(session, "user"), "role").t = "string"

projectStep ==
  /\ UNCHANGED <<now, session, isHydrated, isSubmitting, isSavingProfile, sinceLogout, route>>
  /\ UNCHANGED dashVars
  /\ UNCHANGED projectPage
  /\ bankQuiet /\ retryQuiet /\ mediaQuiet

\* A response arrives: no request leaves in this step.
projectSettles(op) ==
  /\ lastOp' = op
  /\ lastRead' = NoRead
  /\ lastRequest' = NoRequest
  /\ lastLogin' = NoLogin
  /\ lastError' = NoError
  /\ UNCHANGED storage
  /\ projectStep

\* DashboardProjectsPage.loadData up to the await, run by the effect when
\* isAdmin or userId changed.
ListLoad ==
  /\ PageShown("list")
  /\ listLoads' = listLoads \cup {[isAdmin |-> isAdmin(session),
                                    userId |-> sessionUserId(session)]}
  /\ Send("loadProjects")
  /\ lastLogin' = NoLogin
  /\ lastError' = NoError
  /\ UNCHANGED <<pageProjects, editLoads, project, errorMessage>>
  /\ projectStep

\* DashboardProjectsPage.loadData after the await, the requests having
\* succeeded.
ListLoaded ==
  /\ projectPage = "list"
  /\ \E load \in listLoads, projectsResponse \in ProjectsResponses :
       /\ listLoads' = listLoads \ {load}
       /\ pageProjects' = scopedProjects(load, projectsResponse)
  /\ UNCHANGED <<editLoads, project, errorMessage>>
  /\ projectSettles("projectsLoaded")

\* DashboardProjectsPage.loadData after the await, a request having failed.
ListLoadFailed ==
  /\ projectPage = "list"
  /\ \E load \in listLoads : listLoads' = listLoads \ {load}
  /\ UNCHANGED <<pageProjects, editLoads, project, errorMessage>>
  /\ projectSettles("projectsFailed")

\* EditProjectPage.loadData up to the await.
EditLoad ==
  /\ PageShown("edit")
  /\ canManageProjects(session)
  /\ \E projectId \in DOMAIN ServerProjects :
       editLoads' = editLoads \cup {[isAdmin |-> isAdmin(session), isNpo |-> isNpo(session),
                                     userId |-> sessionUserId(session),
                                     projectId |-> projectId]}
  /\ errorMessage' = Null
  /\ Send("loadProject")
  /\ lastLogin' = NoLogin
  /\ lastError' = NoError
  /\ UNCHANGED <<listLoads, pageProjects, project>>
  /\ projectStep

\* EditProjectPage.loadData after the await, the requests having succeeded.
EditLoaded ==
  /\ projectPage = "edit"
  /\ \E load \in editLoads :
       LET loaded == editLoaded(load, ServerProjects[load.projectId], errorMessage)
       IN  /\ editLoads' = editLoads \ {load}
           /\ project' = loaded.project
           /\ errorMessage' = loaded.errorMessage
  /\ UNCHANGED <<listLoads, pageProjects>>
  /\ projectSettles("projectLoaded")

\* EditProjectPage.loadData after the await, a request having failed.
EditLoadFailed ==
  /\ projectPage = "edit"
  /\ \E load \in editLoads, error \in ListingErrors :
       /\ editLoads' = editLoads \ {load}
       /\ errorMessage' = Str(extractApiErrorMessage(requestRejection(error)))
  /\ UNCHANGED <<listLoads, pageProjects, project>>
  /\ projectSettles("projectFailed")

ProjectsNext ==
  \/ ListLoad
  \/ ListLoaded
  \/ ListLoadFailed
  \/ EditLoad
  \/ EditLoaded
  \/ EditLoadFailed
  \/ ProfileResponse

ProjectsSpec == ProjectsInit /\ [][ProjectsNext]_vars

(***************************************************************************)
(* The media inputs of the create form or of the edit form: files are      *)
(* selected, selected files are removed, uploaded media are deleted.       *)
(***************************************************************************)
MediaInit ==
  /\ session = createSessionFromLogin(LoginResponseBody("h.{sub:u1}.s", Str("A"), Undefined))
  /\ storage = writeStoredSession(session)
  /\ now = 1000
  /\ isHydrated = TRUE
  /\ isSubmitting = FALSE
  /\ isSavingProfile = FALSE
  /\ lastOp = "init"
  /\ lastRead = NoRead
  /\ lastRequest = NoRequest
  /\ lastLogin = NoLogin
  /\ lastError = NoError
  /\ sinceLogout = FALSE
  /\ route = "/dashboard/projects"
  /\ backend = [c \in CategoryIds |-> Failed]
  /\ dashboard = "idle"
  /\ categories = <<>>
  /\ projectsByCategory = <<>>
  /\ arrivals = <<>>
  /\ projects = <<>>
  /\ dashError = NoError
  /\ BankIdle /\ RetryIdle /\ ProjectsIdle
  /\ mediaPage \in {"create", "edit"}
  /\ uploaded \in [images : 0..MAX_IMAGE_COUNT, videos : 0..MAX_VIDEO_COUNT]
  /\ mediaPage = "create" => uploaded = [images |-> 0, videos |-> 0]
  /\ selectedImages = <<>>
  /\ selectedVideos = <<>>
  /\ lastSelection = NoSelection

mediaStep ==
  /\ UNCHANGED <<now, session, isHydrated, isSubmitting, isSavingProfile, sinceLogout, route>>
  /\ UNCHANGED dashVars
  /\ UNCHANGED mediaPage
  /\ bankQuiet /\ retryQuiet /\ projectQuiet

\* A handler that sends no request.
mediaLocal(op) ==
  /\ lastOp' = op
  /\ lastRead' = NoRead
  /\ lastRequest' = NoRequest
  /\ lastLogin' = NoLogin
  /\ lastError' = NoError
  /\ UNCHANGED storage
  /\ mediaStep

\* onChange of the images input.
SelectImages ==
  /\ \E files \in FileBatches :
       /\ selectedImages' =
            onChange(selectedImages, files, "image/", MAX_IMAGE_SIZE_BYTES,
                     MAX_IMAGE_COUNT - uploaded.images)
       /\ lastSelection' = [made |-> TRUE, input |-> "images", files |-> files,
                           before |-> [images |-> selectedImages,
                                       videos |-> selectedVideos]]
  /\ UNCHANGED <<selectedVideos, uploaded>>
  /\ mediaLocal("selectImages")

\* onChange of the videos input.
SelectVideos ==
  /\ \E files \in FileBatches :
       /\ selectedVideos' =
            onChange(selectedVideos, files, "video/", MAX_VIDEO_SIZE_BYTES,
                     MAX_VIDEO_COUNT - uploaded.videos)
       /\ lastSelection' = [made |-> TRUE, input |-> "videos", files |-> files,
                           before |-> [images |-> selectedImages,
                                       videos |-> selectedVideos]]
  /\ UNCHANGED <<selectedImages, uploaded>>
  /\ mediaLocal("selectVideos")

\* The X button of a selected image's preview.
RemoveSelectedImage ==
  /\ \E index \in 0..(Len(selectedImages) - 1) :
       selectedImages' = removeAt(selectedImages, index)
  /\ lastSelection' = NoSelection
  /\ UNCHANGED <<selectedVideos, uploaded>>
  /\ mediaLocal("removeImage")

\* The X button of a selected video's preview.
RemoveSelectedVideo ==
  /\ \E index \in 0..(Len(selectedVideos) - 1) :
       selectedVideos' = removeAt(selectedVideos, index)
  /\ lastSelection' = NoSelection
  /\ UNCHANGED <<selectedImages, uploaded>>
  /\ mediaLocal("removeVideo")

\* onDeleteMedia for an uploaded image or video: the media is deleted and the
\* project is read again.
DeleteMedia ==
  /\ mediaPage = "edit"
  /\ \E kind \in {"images", "videos"} :
       /\ uploaded[kind] > 0
       /\ uploaded' = [uploaded EXCEPT ![kind] = @ - 1]
  /\ lastSelection' = NoSelection
  /\ Send("deleteMedia")
  /\ lastLogin' = NoLogin
  /\ lastError' = NoError
  /\ UNCHANGED <<selectedImages, selectedVideos>>
  /\ mediaStep

MediaNext ==
  \/ SelectImages
  \/ SelectVideos
  \/ RemoveSelectedImage
  \/ RemoveSelectedVideo
  \/ DeleteMedia

MediaSpec == MediaInit /\ [][MediaNext]_vars

(***************************************************************************)
(* lib/api: getProjectsForDashboard, step by step.                         *)
(***************************************************************************)
authQuiet ==
  /\ lastLogin' = NoLogin
  /\ lastError' = NoError
  /\ UNCHANGED <<now, session, isHydrated, isSubmitting, isSavingProfile, sinceLogout, route>>
  /\ pageQuiet

\* The call: getCategories() is sent.
DashboardStart ==
  /\ dashboard = "idle"
  /\ dashboard' = "categories"
  /\ Send("getCategories")
  /\ authQuiet
  /\ UNCHANGED <<backend, categories, projectsByCategory, arrivals, projects, dashError>>

\* getCategories() failed: the call rejects.
CategoriesFailure ==
  /\ dashboard = "categories"
  /\ dashboard' = "rejected"
  /\ \E error \in ListingErrors : dashError' = requestRejection(error)
  /\ lastOp' = "categoriesError"
  /\ lastRead' = NoRead
  /\ lastRequest' = NoRequest
  /\ authQuiet
  /\ UNCHANGED <<storage, backend, categories, projectsByCategory, arrivals, projects>>

\* getCategories() answered: no categories resolves with [], otherwise one
\* listing request per category is sent, in the order of the list.
CategoriesResponse ==
  /\ dashboard = "categories"
  /\ \E cats \in CategoryLists :
       /\ categories' = cats
       /\ IF Len(cats) = 0
          THEN /\ dashboard' = "resolved"
               /\ projects' = <<>>
               /\ lastOp' = "categories"
               /\ lastRead' = NoRead
               /\ lastRequest' = NoRequest
               /\ UNCHANGED <<storage, projectsByCategory>>
          ELSE /\ dashboard' = "listings"
               /\ projectsByCategory' = [i \in DOMAIN cats |-> Pending]
               /\ Send("listings")
               /\ UNCHANGED projects
  /\ authQuiet
  /\ UNCHANGED <<backend, arrivals, dashError>>

\* A defective join: values are kept in the order they arrive.
resultSlotByArrival(i, arrived) == Len(arrived) + 1

\* The slot Promise.all stores the i-th promise's value in.
resultSlot(i, arrived) == i

\* One listing answers, in any order; Promise.all keeps each value at the
\* index of its promise, rejects at the first failure and resolves when every
\* listing is in, upon which the call dedupes, sorts and resolves.
ListingResponse ==
  /\ dashboard = "listings"
  /\ \E i \in DOMAIN projectsByCategory :
       /\ \A k \in DOMAIN arrivals : arrivals[k] # i
       /\ arrivals' = Append(arrivals, i)
       /\ LET response == backend[categories[i].id]
              slot == resultSlot(i, arrivals)
              received == [projectsByCategory EXCEPT ![slot] = response]
          IN  IF ~response.ok
              THEN /\ dashboard' = "rejected"
                   /\ \E error \in ListingErrors :
                        dashError' = requestRejection(error)
                   /\ UNCHANGED <<projectsByCategory, projects>>
              ELSE /\ projectsByCategory' = received
                   /\ UNCHANGED dashError
                   /\ IF \A k \in DOMAIN received : received[k].ok
                      THEN /\ dashboard' = "resolved"
                           /\ projects' =
                                combineProjects(categories,
                                  [k \in DOMAIN received |-> received[k].body])
                      ELSE UNCHANGED <<dashboard, projects>>
  /\ lastOp' = "listing"
  /\ lastRead' = NoRead
  /\ lastRequest' = NoRequest
  /\ authQuiet
  /\ UNCHANGED <<storage, backend, categories>>

DashInit ==
  /\ storage = JsonText(Obj(("token" :> Str("h.{sub:u1}.s")) @@ ("user" :> StoredUser)))
  /\ now = 1000
  /\ session = Null
  /\ isHydrated = FALSE
  /\ isSubmitting = FALSE
  /\ isSavingProfile = FALSE
  /\ lastOp = "init"
  /\ lastRead = NoRead
  /\ lastRequest = NoRequest
  /\ lastLogin = NoLogin
  /\ lastError = NoError
  /\ sinceLogout = FALSE
  /\ route = "/dashboard/projects"
  /\ backend \in [CategoryIds -> ListingResponses]
  /\ dashboard = "idle"
  /\ categories = <<>>
  /\ projectsByCategory = <<>>
  /\ arrivals = <<>>
  /\ projects = <<>>
  /\ dashError = NoError
  /\ PageIdle

DashNext ==
  \/ DashboardStart
  \/ CategoriesFailure
  \/ CategoriesResponse
  \/ ListingResponse

DashSpec == DashInit /\ [][DashNext]_vars

(***************************************************************************)
(* Notions the properties are stated in.                                   *)
(***************************************************************************)
\* The payload a token encodes, when it has a decodable middle part.
PayloadOf(token) ==
  IF Jwt[token].parts >= 2 /\ Jwt[token].middle # Throws
  THEN Jwt[token].middle[1] ELSE Null

IsNonEmptyString(x) == x.t = "string" /\ x.v # ""

\* The token carries an expiry claim, and it is not later than `at`.
ExpiredAt(token, at) ==
  LET exp == OptGet(PayloadOf(token), "exp")
  IN  exp.t = "number" /\ exp.v * 1000 <= at

\* The token carries a subject id under the direct or under the legacy key.
HasSubjectId(token) ==
  \/ IsNonEmptyString(OptGet(PayloadOf(token), "sub"))
  \/ IsNonEmptyString(OptGet(PayloadOf(token), NAME_ID_CLAIM))

\* What a stored text holds, when it parses.
Parsed(raw) == IF raw.t = "text" /\ raw.parse # Throws THEN raw.parse[1] ELSE Undefined

StoredToken(raw) == OptGet(Parsed(raw), "token")
StoredUserId(raw) == OptGet(OptGet(Parsed(raw), "user"), "id")

\* The stored value is malformed: no structured text, or no token, or no user id.
Malformed(raw) ==
  \/ raw.t = "text" /\ raw.parse = Throws
  \/ ~IsNonEmptyString(StoredToken(raw))
  \/ ~Truthy(StoredUserId(raw))

\* The stored value is a session record whose token is expired at `at`.
StoredExpired(raw, at) ==
  /\ ~Malformed(raw)
  /\ ExpiredAt(StoredToken(raw).v, at)

UserFields ==
  {"id", "email", "role", "firstName", "lastName", "displayName",
   "mobileNumber", "avatarPath"}

\* Same token and same user fields.
SameSession(a, b) ==
  /\ ~IsNullish(a) /\ ~IsNullish(b)
  /\ Get(a, "token") = Get(b, "token")
  /\ \A k \in UserFields :
       OptGet(Get(a, "user"), k) = OptGet(Get(b, "user"), k)

\* The sessions a login can create, and those a profile update makes of them.
CreatedSessions == {createSessionFromLogin(r) : r \in LoginResponses} \ {Null}
LoginSessions ==
  CreatedSessions
  \cup { applyProfileUpdate(s, u, NoItem).session :
            s \in CreatedSessions, u \in UpdateUserResponses }

(***************************************************************************)
(* C1.  For every stored value under the session key that is malformed     *)
(* (not parseable, or missing the token, or missing the user id) or whose  *)
(* token is expired, readStoredSession returns null and the storage entry  *)
(* is removed.                                                             *)
(***************************************************************************)
C1_MalformedOrExpiredIsPurged ==
  (/\ lastRead.called
   /\ lastRead.raw.t = "text"
   /\ Malformed(lastRead.raw) \/ StoredExpired(lastRead.raw, lastRead.at))
  => /\ lastRead.result = Null
     /\ lastRead.after = NoItem
     /\ storage = NoItem

(***************************************************************************)
(* C2.  readStoredSession returns a session only if its token is           *)
(* decodable, the token contains a non-empty subject id and the token's    *)
(* expiry, if present, is in the future; a stored session failing any of   *)
(* the three is treated as absent and purged.                              *)
(***************************************************************************)
ValidByToken(raw, at) ==
  /\ IsNonEmptyString(StoredToken(raw))
  /\ ~IsNullish(PayloadOf(StoredToken(raw).v))
  /\ HasSubjectId(StoredToken(raw).v)
  /\ ~ExpiredAt(StoredToken(raw).v, at)

C2_SessionOnlyIfTokenValid ==
  (lastRead.called /\ lastRead.raw.t = "text")
  => \/ ValidByToken(lastRead.raw, lastRead.at)
     \/ lastRead.result = Null /\ lastRead.after = NoItem

(***************************************************************************)
(* C3.  Round trip: for a structurally valid, non-expired session s,       *)
(* writeStoredSession(s) followed by readStoredSession() returns a session *)
(* with the same token and user fields, and the entry is still present.    *)
(***************************************************************************)
C3_RoundTrip ==
  \A s \in LoginSessions :
    (/\ lastRead.called
     /\ lastRead.raw = writeStoredSession(s)
     /\ ~ExpiredAt(Get(s, "token").v, lastRead.at))
    => /\ SameSession(lastRead.result, s)
       /\ lastRead.after = writeStoredSession(s)
       /\ storage = writeStoredSession(s)

\* A request read back the session a login wrote, one with undefined fields.
C3_Witness ==
  /\ lastOp = "request"
  /\ lastRead.called
  /\ \E s \in LoginSessions :
       /\ lastRead.raw = writeStoredSession(s)
       /\ session = s
       /\ Get(Get(s, "user"), "mobileNumber") = Undefined
       /\ lastRead.result # s
       /\ SameSession(lastRead.result, s)

(***************************************************************************)
(* C4.  createSessionFromLogin returns a session if and only if the token  *)
(* payload carries a subject id, under the direct subject claim or under   *)
(* the legacy name-identifier claim key.                                   *)
(***************************************************************************)
C4_SessionIffSubjectId ==
  lastLogin.handled
  => (~IsNullish(lastLogin.session) <=> HasSubjectId(lastLogin.response.token))

(***************************************************************************)
(* C5.  After logout, and until a later successful login, the in-memory    *)
(* session is null, isAuthenticated is false, the storage entry is removed *)
(* and requests carry no Authorization header.                             *)
(***************************************************************************)
C5_LogoutDestroysSession ==
  sinceLogout
  => /\ session = Null
     /\ ~isAuthenticated
     /\ storage = NoItem
     /\ lastRequest.sent => lastRequest.authorization = Undefined

\* A request was sent after a logout.
C5_Witness ==
  /\ sinceLogout
  /\ lastOp = "request"
  /\ lastRequest.sent

(***************************************************************************)
(* C6.  Once a read of the stored session finds the token expired and      *)
(* purges the entry, the session AuthProvider exposes is absent too.       *)
(***************************************************************************)
C6_ExpiryDestroysSession ==
  (/\ lastRead.called
   /\ StoredExpired(lastRead.raw, lastRead.at)
   /\ lastRead.after = NoItem)
  => session = Null /\ ~isAuthenticated

(***************************************************************************)
(* C7.  A request carries Authorization: Bearer <token> exactly when a     *)
(* valid stored session exists when it is sent, <token> being that         *)
(* session's token; otherwise it carries no Authorization header.          *)
(***************************************************************************)
C7_BearerIffValidStoredSession ==
  lastRequest.sent
  => IF ~Malformed(lastRead.raw) /\ ~StoredExpired(lastRead.raw, lastRead.at)
     THEN lastRequest.authorization = Str("Bearer " \o StoredToken(lastRead.raw).v)
     ELSE lastRequest.authorization = Undefined

(***************************************************************************)
(* Notions the dashboard properties are stated in.                         *)
(***************************************************************************)
\* The listings the backend holds, in the order of a category list.
ListingsIn(cats) == [i \in DOMAIN cats |-> backend[cats[i].id].body]

\* Every project the requested listings carry, in category order.
Listed == flat(ListingsIn(categories))

Resolved == dashboard = "resolved" /\ Len(categories) > 0

\* The date a project is sorted by: createdOn, else createdAt, else startDate.
CreationDate(p) ==
  IF ~IsNullish(p.createdOn) THEN p.createdOn
  ELSE IF ~IsNullish(p.createdAt) THEN p.createdAt
  ELSE p.startDate

HasParseableDate(p) ==
  /\ CreationDate(p).t = "string"
  /\ DateTime[CreationDate(p).v].t = "number"

\* p's creation date is older than q's; a missing or unparseable date is
\* older than every date and as old as another missing or unparseable one.
Older(p, q) ==
  IF ~HasParseableDate(q) THEN FALSE
  ELSE IF ~HasParseableDate(p) THEN TRUE
  ELSE DateTime[CreationDate(p).v].v < DateTime[CreationDate(q).v].v

SameProject(kept, listed) ==
  /\ kept.id = listed.id /\ kept.categoryId = listed.categoryId
  /\ kept.createdOn = listed.createdOn /\ kept.createdAt = listed.createdAt
  /\ kept.startDate = listed.startDate

(***************************************************************************)
(* C8.  The combined result contains each project id exactly once,         *)
(* contains every id that appears in some listing, and for an id that      *)
(* appears several times keeps the first occurrence in category order.     *)
(***************************************************************************)
C8_DedupedById ==
  Resolved
  => /\ \A i, j \in DOMAIN projects : projects[i].id = projects[j].id => i = j
     /\ {projects[i].id : i \in DOMAIN projects} = {Listed[k].id : k \in DOMAIN Listed}
     /\ \A i \in DOMAIN projects :
          \E k \in DOMAIN Listed :
            /\ SameProject(projects[i], Listed[k])
            /\ \A m \in DOMAIN Listed : Listed[m].id = Listed[k].id => k <= m

\* Two listings carried different copies of one id; the copy of the listing
\* requested first was kept.
C8_Witness ==
  /\ Resolved
  /\ Len(projects) >= 2
  /\ \E k, m \in DOMAIN Listed :
       /\ k < m
       /\ Listed[k].id = Listed[m].id
       /\ ~SameProject(Listed[k], Listed[m])
       /\ k <= Len(ListingsIn(categories)[1]) /\ m > Len(ListingsIn(categories)[1])
       /\ \E i \in DOMAIN projects : SameProject(projects[i], Listed[k])

(***************************************************************************)
(* C9.  The result is sorted by descending creation date (createdOn, else  *)
(* createdAt, else startDate): no element is older than a later one, and a *)
(* project whose date is missing or unparseable comes after every project  *)
(* with a parseable date.                                                  *)
(***************************************************************************)
C9_SortedByCreationDateDescending ==
  Resolved
  => /\ \A i \in DOMAIN projects :
          i < Len(projects) => ~Older(projects[i], projects[i + 1])
     /\ \A i, j \in DOMAIN projects :
          (HasParseableDate(projects[i]) /\ ~HasParseableDate(projects[j])) => i < j

\* A result with a startDate fallback, a date before the epoch and a missing
\* or unparseable date, received in another order than it ends in.
C9_Witness ==
  /\ Resolved
  /\ Len(projects) >= 3
  /\ projects # dedupe(Listed, categories, <<>>)
  /\ \E i \in DOMAIN projects : ~HasParseableDate(projects[i])
  /\ \E i \in DOMAIN projects :
       /\ IsNullish(projects[i].createdOn) /\ IsNullish(projects[i].createdAt)
       /\ HasParseableDate(projects[i])
  /\ \E i \in DOMAIN projects :
       HasParseableDate(projects[i]) /\ DateTime[CreationDate(projects[i]).v].v < 0

(***************************************************************************)
(* C10.  For the same response contents, every interleaving of response    *)
(* arrivals and every issue order of the category requests yields the same *)
(* projects in the same order.                                             *)
(***************************************************************************)
IssueOrders == {cats \in CategoryLists : Len(cats) > 0}

C10_SameForEveryIssueOrder ==
  Resolved
  => \A cats \in IssueOrders : projects = combineProjects(cats, ListingsIn(cats))

\* The copies of each project id are identical, and no two distinct projects
\* have equally old creation dates.
DistinctDates ==
  \A k, m \in DOMAIN Listed :
    Listed[k] # Listed[m]
    => /\ Listed[k].id # Listed[m].id
       /\ Older(Listed[k], Listed[m]) \/ Older(Listed[m], Listed[k])

(***************************************************************************)
(* C10, amended.  For the same response contents and the same issue order, *)
(* every interleaving of response arrivals yields the same projects in the *)
(* same order; every issue order yields that result too when the copies of *)
(* each project id are identical and no two distinct projects have equally *)
(* old creation dates.                                                     *)
(***************************************************************************)
C10_SameForEveryArrivalOrder ==
  Resolved
  => /\ projects = combineProjects(categories, ListingsIn(categories))
     /\ DistinctDates
        => \A cats \in IssueOrders : projects = combineProjects(cats, ListingsIn(cats))

\* The second listing arrived first, the categories came in descending order
\* of id, and the result takes projects from both listings.
C10_Witness ==
  /\ Resolved
  /\ arrivals = <<2, 1>>
  /\ categories[1].id > categories[2].id
  /\ DistinctDates
  /\ Len(projects) >= 3
  /\ projects # Listed

(***************************************************************************)
(* Notions the error properties are stated in.                             *)
(***************************************************************************)
\* The last step caught the rejection of a request whose client threw `cause`.
RequestFailed == lastError.raised /\ "cause" \in DOMAIN lastError

\* The listing of the i-th category failed, and its answer arrived.
FailedListingArrived ==
  \E k \in DOMAIN arrivals : ~backend[categories[arrivals[k]].id].ok

\* The non-empty validation messages of a body's errors map, field by field
\* in the order of the map.
RECURSIVE Concat(_)
Concat(lists) == IF Len(lists) = 0 THEN <<>> ELSE Head(lists) \o Concat(Tail(lists))
ValidationMessages(data) ==
  LET errors == OptGet(data, "errors")
  IN  IF errors.t # "object" THEN <<>>
      ELSE SelectSeq(Concat([i \in DOMAIN errors.keys |-> errors.f[errors.keys[i]].items]),
                     LAMBDA m : IsNonEmptyString(m))

\* The message the stated order of preference picks from a normalized error.
PreferredMessage(error) ==
  LET data == error.data
  IN  IF Len(ValidationMessages(data)) > 0 THEN ValidationMessages(data)[1].v
      ELSE IF IsNonEmptyString(OptGet(data, "detail")) THEN Get(data, "detail").v
      ELSE IF IsNonEmptyString(OptGet(data, "title")) THEN Get(data, "title").v
      ELSE IF IsNonEmptyString(data) THEN data.v
      ELSE IF error.message # "" THEN error.message
      ELSE FALLBACK_ERROR_MESSAGE

\* The failure is neither HTTP-level, nor a timeout, nor a transport failure.
OtherFailure(cause) ==
  /\ cause.class \notin {"HTTPError", "TimeoutError"}
  /\ cause \notin TransportErrors

(***************************************************************************)
(* C11.  getProjectsForDashboard fails as a whole, with a normalized       *)
(* error and without a partial list, as soon as the categories request or  *)
(* any per-category listing request fails, whatever the other listings     *)
(* did; it resolves only when every request succeeded.                     *)
(***************************************************************************)
C11_FailsAsAWhole ==
  /\ FailedListingArrived => dashboard = "rejected"
  /\ dashboard = "rejected"
       => /\ dashError.class = "ApiRequestError"
          /\ projects = <<>>
          /\ categories = <<>> \/ FailedListingArrived
  /\ dashboard = "resolved"
       => /\ dashError = NoError
          /\ \A i \in DOMAIN categories : backend[categories[i].id].ok

\* One listing arrived with projects, then the other failed.
C11_Witness ==
  /\ dashboard = "rejected"
  /\ Len(arrivals) = 2
  /\ backend[categories[arrivals[1]].id].ok
  /\ Len(backend[categories[arrivals[1]].id].body) > 0
  /\ ~backend[categories[arrivals[2]].id].ok

(***************************************************************************)
(* C12.  The message extracted from a normalized request error is the      *)
(* first validation message of the errors map, else detail, else title,    *)
(* else the raw non-empty string body, else the error's message, else the  *)
(* fallback; a 422 response with the body {errors:{email:["Email is        *)
(* required"]}} surfaces "Email is required".                              *)
(***************************************************************************)
C12_MessageByPreference ==
  RequestFailed
  => /\ lastError.message = PreferredMessage(lastError.error)
     /\ ( /\ lastError.cause.class = "HTTPError"
          /\ lastError.cause.response.status = 422
          /\ lastError.cause.response.json = Returns(EmailRequired) )
        => lastError.message = "Email is required"

(***************************************************************************)
(* C13.  A request that fails in transport, no response having arrived,    *)
(* surfaces the fixed network-error message, never the transport error's   *)
(* own text.                                                               *)
(***************************************************************************)
C13_TransportFailureShowsGuidance ==
  (RequestFailed /\ lastError.cause \in TransportErrors)
  => lastError.message = NETWORK_ERROR_MESSAGE

(***************************************************************************)
(* C14 as stated.  normalizeApiError gives a timeout the fixed timeout     *)
(* message, and any failure that is neither HTTP-level, nor a timeout, nor *)
(* a transport failure the fallback message.                               *)
(***************************************************************************)
C14_OtherFailureIsFallback ==
  RequestFailed
  => /\ lastError.cause.class = "TimeoutError"
          => lastError.error.message = "Request timed out."
     /\ OtherFailure(lastError.cause)
          => lastError.error.message = FALLBACK_ERROR_MESSAGE

(***************************************************************************)
(* C14 amended.  normalizeApiError gives a timeout the fixed timeout       *)
(* message, a thrown value that is no Error the fallback message, and any  *)
(* other Error its own message.                                            *)
(***************************************************************************)
C14_OtherErrorKeepsItsMessage ==
  RequestFailed
  => /\ lastError.error.class = "ApiRequestError"
     /\ lastError.cause.class = "TimeoutError"
          => lastError.error.message = "Request timed out."
     /\ OtherFailure(lastError.cause)
          => lastError.error.message =
               IF IsError(lastError.cause) THEN lastError.cause.message
               ELSE FALLBACK_ERROR_MESSAGE

\* A request failed on an Error that is no HTTP error, timeout or transport
\* failure, and has a message.
C14_Witness ==
  /\ RequestFailed
  /\ OtherFailure(lastError.cause)
  /\ IsError(lastError.cause)
  /\ lastError.cause.message # ""
  /\ lastError.error.message = lastError.cause.message

(***************************************************************************)
(* Notions the session derivation properties are stated in.                *)
(***************************************************************************)
\* A login response was handled and a session was derived from it.
Derived == lastLogin.handled /\ ~IsNullish(lastLogin.session)

DerivedUser(field) == Get(Get(lastLogin.session, "user"), field)

IsNonBlankString(x) == x.t = "string" /\ trim(x.v) # ""

\* The token's role claim under the short key and under the legacy key.
ShortRole(token) == OptGet(PayloadOf(token), "role")
LegacyRole(token) == OptGet(PayloadOf(token), ROLE_CLAIM)

\* The role claim found by looking under the short key, then under the legacy
\* key, for a non-blank string; "Donor" when neither holds one.
RoleClaimed(token) ==
  IF IsNonBlankString(ShortRole(token)) THEN ShortRole(token).v
  ELSE IF IsNonBlankString(LegacyRole(token)) THEN LegacyRole(token).v
  ELSE "Donor"

(***************************************************************************)
(* C15.  For every token with fewer than two dot-separated segments, and   *)
(* every token whose middle segment fails base64url decoding or parsing,   *)
(* decodeJwtPayload returns null and raises no exception: a login with     *)
(* such a token ends in the "unable to parse" error, not in the decoding   *)
(* error.                                                                  *)
(***************************************************************************)
C15_UndecodableTokenGivesNull ==
  LET token == lastLogin.response.token
  IN  ( /\ lastLogin.handled
        /\ Jwt[token].parts < 2 \/ Jwt[token].middle = Throws )
      => /\ lastLogin.payload = Null
         /\ lastLogin.session = Null
         /\ lastError.raised
         /\ lastError.message = "Unable to parse login token."

\* A login handled a three-part token whose middle part decodes to text that
\* does not parse.
C15_Witness ==
  /\ lastLogin.handled
  /\ lastLogin.response.token = "h.bm90.s"
  /\ lastLogin.payload = Null

(***************************************************************************)
(* C16.  isTokenExpired returns false for a token without expiry claim,    *)
(* and for every token with an expiry claim, whatever its value in seconds *)
(* since the epoch, returns true exactly when that expiry is not later     *)
(* than the current time.                                                  *)
(***************************************************************************)
C16_ExpiredIffExpiryNotLater ==
  (lastRead.called /\ lastRead.expired # <<>>)
  => LET exp == OptGet(PayloadOf(StoredToken(lastRead.raw).v), "exp")
     IN  IF exp.t = "number"
         THEN lastRead.expired[1] <=> (exp.v * 1000 <= lastRead.at)
         ELSE lastRead.expired[1] = FALSE

(***************************************************************************)
(* C17.  The role of a created session is the token's role claim, looked   *)
(* up under the short key and under the legacy key, when that claim is a   *)
(* non-blank string, and "Donor" when the role is absent or blank under    *)
(* both keys.                                                              *)
(***************************************************************************)
C17_RoleFromEitherKey ==
  Derived => DerivedUser("role") = Str(RoleClaimed(lastLogin.response.token))

(***************************************************************************)
(* C18 as stated.  For every token the role of the created session is one  *)
(* of Admin, Npo, Donor: a role claim outside these yields "Donor".        *)
(***************************************************************************)
C18_RoleIsRecognized ==
  Derived => DerivedUser("role").v \in {"Admin", "Npo", "Donor"}

(***************************************************************************)
(* C18 amended.  A non-blank role string under the short key, or under the *)
(* legacy key when the short key is absent, becomes the role unchanged,    *)
(* recognized or not; the role is always one of the token's role claims or *)
(* "Donor".                                                                *)
(***************************************************************************)
C18_RoleClaimIsKept ==
  Derived
  => LET short == ShortRole(lastLogin.response.token)
         legacy == LegacyRole(lastLogin.response.token)
     IN  /\ IsNonBlankString(short) => DerivedUser("role") = short
         /\ (IsNullish(short) /\ IsNonBlankString(legacy)) => DerivedUser("role") = legacy
         /\ DerivedUser("role") \in {short, legacy, Str("Donor")}

\* A session was derived from a token whose role claim is none of the three
\* known roles.
C18_Witness ==
  /\ Derived
  /\ ShortRole(lastLogin.response.token) = Str("Editor")
  /\ DerivedUser("role") = Str("Editor")

(***************************************************************************)
(* C19 as stated.  The displayName of a created session is the login       *)
(* response's displayName when that is non-blank, otherwise first and      *)
(* last name joined by one space and trimmed.                              *)
(***************************************************************************)
C19_DisplayNameAsGiven ==
  Derived
  => LET response == lastLogin.response
     IN  IF IsNonBlankString(response.displayName)
         THEN DerivedUser("displayName") = response.displayName
         ELSE DerivedUser("displayName") =
                Str(trim(Coalesce(response.firstName, Str("")).v
                         \o (" " \o Coalesce(response.lastName, Str("")).v)))

(***************************************************************************)
(* C19 amended.  The displayName is the login response's displayName       *)
(* trimmed when that is non-blank, otherwise first and last name joined by *)
(* one space and trimmed; the token {sub:"u1", role:"Npo", exp in the      *)
(* future} with {firstName:"A", lastName:"B"} gives id "u1", role "Npo",   *)
(* displayName "A B" and the response's token.                             *)
(***************************************************************************)
C19_DisplayNameTrimmed ==
  Derived
  => LET response == lastLogin.response
     IN  /\ response.displayName = Str(" D ") => DerivedUser("displayName") = Str("D")
         /\ (~IsNonBlankString(response.displayName) /\ response.firstName = Str("A"))
              => DerivedUser("displayName") = Str("A B")
         /\ (~IsNonBlankString(response.displayName) /\ response.firstName = Null)
              => DerivedUser("displayName") = Str("B")
         /\ ( /\ response.token = "h.{sub:u1,exp:2}.s"
              /\ response.firstName = Str("A")
              /\ response.displayName = Undefined )
            => /\ DerivedUser("id") = Str("u1")
               /\ DerivedUser("role") = Str("Npo")
               /\ DerivedUser("displayName") = Str("A B")
               /\ Get(lastLogin.session, "token") = Str(response.token)

\* A session was derived from a response whose displayName has outer spaces.
C19_Witness ==
  /\ Derived
  /\ lastLogin.response.displayName = Str(" D ")
  /\ DerivedUser("displayName") = Str("D")

(***************************************************************************)
(* Notions the login properties are stated in.                             *)
(***************************************************************************)
\* The last step settled a login call: with a session, or with an error.
LoginSucceeded == lastOp = "loginOk"
LoginFailed == lastOp = "loginError"

\* The storage entry and the session when the settled login was called, when
\* no other step came between the call and its settling.
SettledBefore ==
  IF lastLogin.handled THEN lastLogin.before
  ELSE IF lastError.raised /\ "before" \in DOMAIN lastError THEN lastError.before
  ELSE <<>>

\* The session is created exactly when the request succeeded and a session
\* could be derived; memory and storage then hold the derived session.
CreatesSessionIffDerived ==
  /\ LoginSucceeded <=> (Derived /\ lastOp \in {"loginOk", "loginError"})
  /\ LoginSucceeded
       => /\ session = lastLogin.session
          /\ SameSession(Parsed(storage), lastLogin.session)
          /\ ~lastError.raised

\* A failed login throws an error with the message extracted for the user.
ThrowsUserMessage ==
  LoginFailed
  => /\ lastError.raised
     /\ lastError.op = "login"
     /\ ~RequestFailed => lastError.message = "Unable to parse login token."
     /\ (RequestFailed /\ lastError.cause.class = "TimeoutError")
          => lastError.message = "Request timed out."
     /\ ( /\ RequestFailed
          /\ lastError.cause.class = "HTTPError"
          /\ lastError.cause.response.json = Returns(InvalidCredentials) )
        => lastError.message = "Invalid credentials"

(***************************************************************************)
(* C20 as stated.  login creates a session if and only if the request      *)
(* succeeds and a session can be derived; then memory and storage hold the *)
(* derived session.  On any failure it throws an error with the extracted  *)
(* user message and leaves the in-memory session and the storage entry as  *)
(* they were when login was called.                                        *)
(***************************************************************************)
C20_FailureLeavesStorageUnchanged ==
  /\ CreatesSessionIffDerived
  /\ ThrowsUserMessage
  /\ (LoginFailed /\ SettledBefore # <<>>)
       => /\ session = SettledBefore[1].session
          /\ storage = SettledBefore[1].storage

(***************************************************************************)
(* C20 amended.  As stated, except that on failure login writes nothing to *)
(* storage: the storage entry is as it was when login was called, or has   *)
(* been removed by the request hook because it was malformed or expired.   *)
(***************************************************************************)
C20_FailureWritesNothing ==
  /\ CreatesSessionIffDerived
  /\ ThrowsUserMessage
  /\ (LoginFailed /\ SettledBefore # <<>>)
       => /\ session = SettledBefore[1].session
          /\ \/ storage = SettledBefore[1].storage
             \/ /\ storage = NoItem
                /\ \/ Malformed(SettledBefore[1].storage)
                   \/ StoredExpired(SettledBefore[1].storage, now)

\* A login failed on an HTTP error while a session was held and stored.
C20_Witness ==
  /\ LoginFailed
  /\ RequestFailed
  /\ lastError.cause.class = "HTTPError"
  /\ SettledBefore # <<>>
  /\ ~IsNullish(session)
  /\ SameSession(Parsed(storage), session)

(***************************************************************************)
(* Notions the profile update properties are stated in.                    *)
(***************************************************************************)
\* This step is onSaveProfile's continuation applying a response.
ProfileApplied == lastOp' = "profileOk"

SessionUser(s, field) == OptGet(OptGet(s, "user"), field)

\* A null in the response reads as an absent field.
Given(v) == IF IsNullish(v) THEN Undefined ELSE v

\* The user fields of `next` are those of the response; the display name is
\* the response's first and last name joined by one space and trimmed.
HoldsResponse(next, payload) ==
  /\ SessionUser(next, "email") = payload.email
  /\ SessionUser(next, "firstName") = payload.firstName
  /\ SessionUser(next, "lastName") = payload.lastName
  /\ SessionUser(next, "role") = payload.role
  /\ SessionUser(next, "mobileNumber") = Given(payload.mobileNumber)
  /\ SessionUser(next, "avatarPath") = Given(payload.avatarPath)
  /\ SessionUser(next, "displayName") =
       Str(trim(payload.firstName.v \o (" " \o payload.lastName.v)))

\* The in-memory session's token has not expired.
SessionNotExpired ==
  IsNullish(session) \/ ~ExpiredAt(Get(session, "token").v, now)

C26_MemoryAndStorageAgree ==
  (isHydrated /\ SessionNotExpired)
  => \/ IsNullish(session) /\ (storage = NoItem \/ storage = EmptyText)
     \/ SameSession(Parsed(storage), session)

\* After a logout and a new login, a profile update was applied.
C26_Witness ==
  /\ isHydrated
  /\ lastOp = "profileOk"
  /\ ~IsNullish(session)
  /\ SessionNotExpired
  /\ SameSession(Parsed(storage), session)

(***************************************************************************)
(* C27.  A profile update response that is applied while the in-memory     *)
(* session is null, the user having logged out with the update in flight,  *)
(* leaves the session null and writes nothing to the storage entry.        *)
(***************************************************************************)
C27_LateUpdateKeepsLoggedOut ==
  [][ (ProfileApplied /\ IsNullish(session))
      => /\ session' = session
         /\ storage' = storage ]_vars

\* A profile update was applied after the logout that followed its sending.
C27_Witness ==
  /\ lastOp = "profileOk"
  /\ sinceLogout
  /\ session = Null
  /\ storage = NoItem

(***************************************************************************)
(* Notions the route guard properties are stated in.                       *)
(***************************************************************************)
OnDashboard == route = "/dashboard/projects"

\* The dashboard layout is shown with its header, navigation and child routes.
ProtectedContentShown == OnDashboard /\ DashboardLayout(isHydrated, session) = "content"

\* The dashboard layout is shown as its loading placeholder.
PlaceholderShown == OnDashboard /\ DashboardLayout(isHydrated, session) = "loading"

\* This step is the user opening the page at `to`.
Opened(to) == lastOp' = "open " \o to

\* This step ended on another page than the one the user opened, or changed
\* the page without the user opening a page or logging out.
Redirected ==
  \/ \E to \in Routes : Opened(to) /\ route' # to
  \/ /\ \A to \in Routes : ~Opened(to)
     /\ lastOp' # "logout"
     /\ route' # route

(***************************************************************************)
(* C28.  The dashboard layout renders its protected content only when      *)
(* hydration has completed, isAuthenticated is true and a session exists;  *)
(* before hydration completes it renders the loading placeholder and never *)
(* redirects; whenever hydration has completed and the user is             *)
(* unauthenticated it navigates to /login; the login page navigates to     *)
(* /dashboard/projects only when hydrated and authenticated.               *)
(***************************************************************************)
C28_RouteGuards ==
  [][ /\ ProtectedContentShown' => (isHydrated' /\ isAuthenticated' /\ ~IsNullish(session'))
      /\ (~isHydrated' /\ OnDashboard') => PlaceholderShown'
      /\ ~isHydrated' => ~Redirected
      /\ (isHydrated' /\ ~isAuthenticated') => route' = "/login"
      /\ (Redirected /\ OnDashboard') => (isHydrated' /\ isAuthenticated')
      /\ (Redirected /\ route' = "/login") => (isHydrated' /\ ~isAuthenticated')
    ]_vars

\* Hydration completed on the dashboard without a session: the layout went
\* to the login page.
C28_Witness ==
  /\ lastOp = "hydrate"
  /\ isHydrated /\ ~isAuthenticated
  /\ lastRead.raw # NoItem
  /\ route = "/login"

(***************************************************************************)
(* C22.  readBankDetails(userId) never throws: it returns a record of the  *)
(* six fields, and when the user's entry is absent or cannot be parsed as  *)
(* a record it returns the default record, all six fields the empty        *)
(* string, and storage is not modified.                                    *)
(***************************************************************************)
GivesNoRecord(raw) == IsNullish(Parsed(raw)) \/ Parsed(raw).t # "object"

C22_ReadGivesDefaultRecord ==
  [][ lastBank'.op = "read"
      => /\ lastBank'.result.t = "object"
         /\ DOMAIN lastBank'.result.f = BankFields
         /\ lastBank'.raw = bank[getStorageKey(lastBank'.userId)]
         /\ GivesNoRecord(lastBank'.raw)
            => /\ lastBank'.result = EMPTY_BANK_DETAILS
               /\ bank' = bank
               /\ storage' = storage ]_vars

\* The entry read held the text null.
C22_Witness ==
  /\ lastBank.op = "read"
  /\ lastBank.raw = JsonText(Null)
  /\ lastBank.result = EMPTY_BANK_DETAILS
  /\ bank[getStorageKey(lastBank.userId)] = JsonText(Null)

(***************************************************************************)
(* C23.  writeBankDetails is a full overwrite: once writeBankDetails(u, d) *)
(* ran, readBankDetails(u) returns exactly d, no field of the earlier      *)
(* record surviving.                                                       *)
(***************************************************************************)
C23_WriteIsFullOverwrite ==
  (lastBank.op = "read" /\ written[lastBank.userId] # <<>>)
  => lastBank.result = written[lastBank.userId][1]

\* A record with two empty fields was written over a record that had them
\* filled, and read back.
C23_Witness ==
  /\ lastBank.op = "read"
  /\ lastBank.overwrote = <<JsonText(BankRecord("Old", "Old Bank", "OLD1"))>>
  /\ lastBank.result = BankRecord("Ann", "", "")

(***************************************************************************)
(* C24.  Bank details are independent per user and of the session:         *)
(* writeBankDetails(u, d) leaves the record read for every other user and  *)
(* the session entry unchanged, and login, logout and session purging      *)
(* leave every user's bank details unchanged.                              *)
(***************************************************************************)
C24_BankDetailsIndependent ==
  [][ /\ lastBank'.op = "write"
         => /\ \A v \in UserIds \ {lastBank'.userId} :
                 readBankDetails(v, bank').result = readBankDetails(v, bank).result
            /\ storage' = storage
      /\ lastOp' \in {"hydrate", "loginSubmit", "loginOk", "loginError", "logout", "request"}
         => \A v \in UserIds :
              /\ bank'[getStorageKey(v)] = bank[getStorageKey(v)]
              /\ readBankDetails(v, bank').result = readBankDetails(v, bank).result ]_vars

\* The details of u1 were written while u2 had a record stored and a session
\* was stored.
C24_Witness ==
  /\ lastBank.op = "write"
  /\ lastBank.userId = "u1"
  /\ readBankDetails("u2", bank).result = BankRecord("Old", "Old Bank", "OLD1")
  /\ isAuthenticated
  /\ SameSession(Parsed(storage), session)

\* A request purged the session entry while both users had bank details.
C24_PurgeWitness ==
  /\ lastOp \in {"hydrate", "request"}
  /\ lastRead.raw # NoItem /\ storage = NoItem
  /\ \A v \in UserIds : bank[getStorageKey(v)] # NoItem

(***************************************************************************)
(* C25.  No automatic retries exist: a call of an API-client operation     *)
(* sends its request at most once, and when the request fails (network     *)
(* error, HTTP error status or timeout) the failure is normalized into the *)
(* single error shape and re-thrown without the request being sent again.  *)
(***************************************************************************)
C25_EachRequestSentOnce ==
  call.stage # "idle"
  => /\ call.sent <= 1
     /\ call.stage = "rejected" => call.error = normalizeApiError(call.cause)

(***************************************************************************)
(* C29.  A non-admin user never has another owner's project placed in page *)
(* state: on the projects list page, for every session whose role is not   *)
(* admin (case-insensitively), every project stored after loading has      *)
(* npoUserId equal to the session user's id; on the edit page, an NPO user  *)
(* loading a project whose npoUserId differs from their own id ends with no *)
(* project in state and the message "You are not allowed to edit this       *)
(* project."; only an admin session sees projects of all owners.            *)
(***************************************************************************)
Owns(s, p) == p.npoUserId = sessionUserId(s)

C29_OnlyOwnProjectsForNonAdmin ==
  [][ /\ (lastOp' = "projectsLoaded" /\ ~isAdmin(session'))
         => \A i \in DOMAIN pageProjects' : Owns(session', pageProjects'[i])
      /\ (lastOp' = "projectLoaded" /\ ~isAdmin(session'))
         => (project' = Null \/ Owns(session', project'))
      /\ (lastOp' = "projectLoaded" /\ isNpo(session'))
         => \A load \in editLoads \ editLoads' :
              ~Owns(session', ServerProjects[load.projectId])
              => /\ project' = Null
                 /\ errorMessage' = Str(NOT_ALLOWED_MESSAGE) ]_vars

(***************************************************************************)
(* C30.  Media selection bounds hold after any sequence of file selections *)
(* and removals: on the create form the selected images are never more     *)
(* than 10 and the selected videos never more than 1; on the edit form the *)
(* uploaded plus the selected images are never more than 10 and the        *)
(* videos never more than 1; a batch containing an image over 5 MB, or a   *)
(* video over 20 MB, leaves the selected lists unchanged, so that no        *)
(* selected file is ever over its limit.                                   *)
(***************************************************************************)
SizeLimit(input) == IF input = "images" THEN MAX_IMAGE_SIZE_BYTES ELSE MAX_VIDEO_SIZE_BYTES
TypePrefix(input) == IF input = "images" THEN "image/" ELSE "video/"

HasOversized(selection) ==
  \E i \in DOMAIN selection.files :
     /\ startsWith(selection.files[i].type, TypePrefix(selection.input))
     /\ selection.files[i].size > SizeLimit(selection.input)

C30_RefusedWitness ==
  /\ lastSelection.made
  /\ HasOversized(lastSelection)
  /\ Len(selectedImages) > 0

====
